---- MODULE Spec2Model ----
(***************************************************************************)
(* Crosstalk: the track enrichment handlers (single track and playlist     *)
(* batch), the Gemini API key rotation and the tracks table they share;    *)
(* the chat handlers and the chat_messages table; the orbit assignment of  *)
(* the page and of the visualization.                                      *)
(*                                                                         *)
(* The server is one JavaScript event loop: a handler runs without         *)
(* interruption until it awaits an external call, and other requests run   *)
(* only while it waits.  `running` is the request that holds the thread;   *)
(* an action that starts an awaited call releases it, and the action that  *)
(* delivers the call's result takes it again.                              *)
(***************************************************************************)
EXTENDS Integers, Sequences, FiniteSets, TLC

(* ------------------------------ bounds --------------------------------- *)
\* environment events in one behaviour of Spec: a request submitted, a DELETE
\* served, an external call that fails or finds nothing
MaxEvents == 3
\* length of the playlists Spotify returns in Spec
MaxPlaylistLen == 2
\* Gemini API keys configured (the program reads at most MaxEnvKeys)
MaxKeys == 2
\* candidates of the long playlist of SpecBatch beyond TARGET_SUCCESS
ExtraCandidates == 2
\* external failures in one behaviour of SpecBatch
MaxBatchFaults == 1
\* environment events in one behaviour of SpecChat: a chat request, the chat
\* cleared, a provider call that fails or answers without text, a second passing
MaxChatEvents == 3
\* tracks the page of SpecOrbit is given in one behaviour
MaxPageTracks == 6
\* seconds that pass in one behaviour of SpecOrbit
MaxSeconds == 2
\* tracks of the collection the database file of SpecContext holds at the start
MaxStoredTracks == 2
\* tracks of the list the page of SpecLoaded has loaded
MaxLoadedTracks == 8
\* Successful additions the page makes in the specification of the nucleus.
MaxAdded == 5
\* Deletions in the specification of the nucleus.
MaxNucleusEvents == 1
\* Pieces of a response text that is parsed.
MaxTextLen == 5

(* -------------------------- program constants -------------------------- *)
TARGET_SUCCESS == 25
MaxEnvKeys == 6
\* chatQueries.getRecent.all(10)
RecentLimit == 10
\* the orbits of the page's track list: Array(6)
PageOrbits == 6
\* the orbits of the visualization: ORBIT_RADII.length
numOrbits == 4
\* the placeholders of trackQueries.insert, and the values the audio-analysis
\* handler runs it with
InsertParameters == 18
AudioInsertValues == 17

\* two request slots: the handlers of two requests may be in flight together
Requests == {"r1", "r2"}
\* the Spotify track ids that single URLs and short playlists refer to
SpotifyIds == {1, 2}
None == "nobody"

Min(a, b) == IF a < b THEN a ELSE b

(* ------------------------------ messages ------------------------------- *)
\* An Error's message.  The aggregate error of the rotation carries the pool
\* size and the last underlying message, which the template string embeds.
ErrorMsg(text) == [text |-> text, k |-> 0, last |-> ""]
NoError == ErrorMsg("")
AllKeysFailed(k, last) ==
    [text |-> "All Gemini API keys failed. Last error:", k |-> k, last |-> last]
UniqueViolation == ErrorMsg("UNIQUE constraint failed: tracks.spotify_id")

\* What an operation may throw: Errors with a message, or a value that is no
\* Error at all.
Thrown ==
    { [isError |-> TRUE, message |-> "Failed to parse Gemini response as JSON"],
      [isError |-> FALSE, message |-> ""] }

\* lastError = error instanceof Error ? error : new Error('Unknown error')
AsError(thrown) == IF thrown.isError THEN thrown.message ELSE "Unknown error"
NullError == "undefined"

(* ------------------------------ database ------------------------------- *)
Null == "null"
Undefined == "undefined value"

\* The Emotion type: the eight labels the prompts ask for.
Emotions == {"joy", "sadness", "anger", "fear", "love", "surprise", "calm", "nostalgia"}

\* NULL in a REAL column (valence and energy are kept in hundredths).
NullReal == -1

\* The JSON object Gemini answers with, as JSON.parse returns it: its emotion a
\* label of the enum, a string outside it, or no such field; its valence and
\* energy numbers or null.
Analysis(emotion, valence, energy) ==
    [emotion |-> emotion, valence |-> valence, energy |-> energy]

Analyses ==
    {Analysis("joy", 80, 60), Analysis("melancholy", NullReal, 40),
     Analysis(Undefined, 50, 50)}

NoRow ==
    [id |-> 0, spotify_id |-> 0, lyrics |-> Null, emotion |-> Null,
     valence |-> NullReal, energy |-> NullReal, added_at |-> 0]

SpotifyIdTaken(tbl, sid) == \E j \in DOMAIN tbl : tbl[j].spotify_id = sid

\* trackQueries.getBySpotifyId.get(sid)
GetBySpotifyId(tbl, sid) ==
    IF SpotifyIdTaken(tbl, sid)
    THEN tbl[CHOOSE j \in DOMAIN tbl : tbl[j].spotify_id = sid]
    ELSE NoRow

\* trackQueries.getById.get(id)
GetById(tbl, id) ==
    IF \E j \in DOMAIN tbl : tbl[j].id = id
    THEN tbl[CHOOSE j \in DOMAIN tbl : tbl[j].id = id]
    ELSE NoRow

\* spotify_id TEXT UNIQUE NOT NULL: the insert throws when the id is taken
InsertAlwaysAllowed(tbl, sid) == TRUE

InsertAllowed(tbl, sid) == ~SpotifyIdTaken(tbl, sid)

\* An undefined parameter cannot be bound (and emotion is NOT NULL): the insert
\* throws before any row is written.
BindError == ErrorMsg("SQLite3 can only bind numbers, strings, bigints, buffers, and null")

Bindable(value) == value # Undefined

\* The error a rejected insert throws, NoError when the insert is accepted.
InsertError(tbl, sid, emotion) ==
    IF ~Bindable(emotion) THEN BindError
    ELSE IF ~InsertAllowed(tbl, sid) THEN UniqueViolation
    ELSE NoError

\* The statement of trackQueries.insert has InsertParameters placeholders: run
\* with fewer values throws before any row is written.
TooFewValues == ErrorMsg("Too few parameter values were provided")

ArityError(values) == IF values < InsertParameters THEN TooFewValues ELSE NoError

\* trackQueries.insert.run(...): id INTEGER PRIMARY KEY AUTOINCREMENT, added_at
\* DEFAULT CURRENT_TIMESTAMP
InsertRun(tbl, id, sid, lyrics, analysis, at) ==
    Append(tbl, [id |-> id, spotify_id |-> sid, lyrics |-> lyrics,
                 emotion |-> analysis.emotion, valence |-> analysis.valence,
                 energy |-> analysis.energy, added_at |-> at])

\* trackQueries.delete.run(id)
DeleteRun(tbl, id) == SelectSeq(tbl, LAMBDA row : row.id # id)

(* ------------------------------- state --------------------------------- *)
VARIABLES
    tracks,     \* the tracks table, rows in insertion order
    nextId,     \* the next AUTOINCREMENT id
    env,        \* process.env: which credentials are configured
    playlists,  \* the track lists Spotify may return for a playlist URL
    running,    \* the request holding the event loop, or None
    req,        \* per request: the handler's locals and its position
    obs,        \* per request: what an observer of the handler has seen
    events,     \* environment events that may still happen
    now,        \* CURRENT_TIMESTAMP, in seconds
    chat_messages, \* the chat_messages table, rows in insertion order
    nextMsgId,  \* its next AUTOINCREMENT id
    chat,       \* per chat request: the handler's locals and its position
    page,       \* the page in the browser: its track list and selected orbit
    nucleus_metadata, \* the nucleus_metadata table
    nucleus,    \* the nucleus handler in progress: its locals and its position
    adder,      \* the page's addTrack: its position, and what it has done so far
    parser      \* an analysis call: the response text and what is made of it

chatVars == <<chat_messages, nextMsgId, chat>>

nucleusVars == <<nucleus_metadata, nucleus, adder>>

vars == <<tracks, nextId, env, playlists, running, req, obs, events, now,
          chatVars, page, nucleusVars, parser>>

EmptyResults == [success |-> <<>>, failed |-> <<>>, skipped |-> <<>>]

NoResponse ==
    [status |-> 0, error |-> NoError, track |-> NoRow, totalProcessed |-> 0,
     successCount |-> 0, failedCount |-> 0, skippedCount |-> 0,
     results |-> EmptyResults]

ErrorResponse(status, msg) == [NoResponse EXCEPT !.status = status, !.error = msg]

NoRotation ==
    [status |-> "none", calls |-> <<>>, thrown |-> <<>>, resultKey |-> -1,
     error |-> NoError]

IdleRequest ==
    [kind |-> "none", pc |-> "idle", trackId |-> 0, playlistTracks |-> <<>>,
     i |-> 0, results |-> EmptyResults, keyIdx |-> 0, lastError |-> NullError,
     calls |-> {}, lyrics |-> Null, emotion |-> Null, valence |-> NullReal,
     energy |-> NullReal, response |-> NoResponse]

\* Observations, not program state: which candidates the loop body was entered
\* for, what the duplicate lookup found, how many rows each candidate inserted,
\* whose insert the table rejected, and the course of the latest rotation;
\* the candidates left without lyrics, those an analysis call was made for,
\* and those whose analysis named no emotion of the enum.
NoObservation ==
    [attempted |-> {}, dupSeen |-> {}, inserted |-> <<>>, rejected |-> {},
     rotation |-> NoRotation, fetchFailed |-> FALSE, providerCalls |-> 0,
     noLyrics |-> {}, analysed |-> {}, offEnum |-> {}]

\* What an analysis that settles costs the environment: an answer off the
\* schema is one of its events.
AnswerCost(answer) == IF answer.emotion \in Emotions THEN 0 ELSE 1

OffEnum(answer, cand) == IF answer.emotion \in Emotions THEN {} ELSE {cand}

\* const analysis = await ...: the handler's locals once the analysis is there
Analysed(rq, answer) ==
    [rq EXCEPT !.emotion = answer.emotion, !.valence = answer.valence,
               !.energy = answer.energy]

\* analysis.emotion, analysis.valence, analysis.energy, as the insert is given
\* them
AnalysisOf(rq) == Analysis(rq.emotion, rq.valence, rq.energy)

Call(api, cand, key) == [api |-> api, cand |-> cand, key |-> key]


\* A request is served in the first free slot: the slots are interchangeable.
FreeSlot(r) ==
    /\ req[r].pc = "idle"
    /\ r = "r1" \/ req["r1"].pc # "idle"

Step(r, rq, ob) ==
    /\ req' = [req EXCEPT ![r] = rq]
    /\ obs' = [obs EXCEPT ![r] = ob]

(* ------------------------ withApiKeyRotation --------------------------- *)
\* for (let i = 0; ...): every call starts with the first key, whatever the
\* caller's earlier calls did (rq holds what they left behind)
FirstKeySticky(rq) == rq.keyIdx

FirstKey(rq) == 0

\* i++ after a failed attempt
NextKey(i) == i + 1

\* i < apiKeys.length
HasKey(i, apiKeys) == i < apiKeys

\* lastError after the attempt's catch block
LastErrorKeepsFirst(lastError, thrown) ==
    IF lastError = NullError THEN AsError(thrown) ELSE lastError

LastErrorAfter(lastError, thrown) == AsError(thrown)

\* The calls outstanding once `await operation(apiKeys[i])` has settled.
CallsNotAwaited(calls, call) == calls

CallsAfterAwait(calls, call) == calls \ {call}

\* throw new Error(`All ${apiKeys.length} Gemini API keys failed. Last error:
\* ${lastError?.message}`)
RotationError(apiKeys, lastError) == AllKeysFailed(apiKeys, lastError)

(* ----------------------- POST /api/tracks/analyze-playlist -------------- *)
Candidate(rq) == rq.playlistTracks[rq.i + 1]

\* results.success.length >= TARGET_SUCCESS
ReachedTargetStrict(successes) == successes > TARGET_SUCCESS

ReachedTarget(successes) == successes >= TARGET_SUCCESS

\* if (existing)
Found(existing) == existing # NoRow

Entry(rq, reason) == [cand |-> rq.i, track |-> Candidate(rq), reason |-> reason]

\* results.skipped.push({..., reason: 'Already in collection'}); continue
PushSkipped(rq) ==
    [rq EXCEPT !.results.skipped =
                   Append(@, Entry(rq, ErrorMsg("Already in collection"))),
               !.i = @ + 1, !.pc = "loop"]

\* results.failed.push({..., reason}); then the next iteration
PushFailedRethrows(rq, reason) ==
    [rq EXCEPT !.pc = "done", !.calls = {}, !.response = ErrorResponse(500, reason)]

PushFailed(rq, reason) ==
    [rq EXCEPT !.results.failed = Append(@, Entry(rq, reason)),
               !.i = @ + 1, !.pc = "loop", !.calls = {}]

\* results.success.push(track); then the next iteration
PushSuccessLost(rq, track) == [rq EXCEPT !.i = @ + 1, !.pc = "loop"]

PushSuccess(rq, track) ==
    [rq EXCEPT !.results.success = Append(@, [cand |-> rq.i, track |-> track]),
               !.i = @ + 1, !.pc = "loop"]

\* The body of the 200 response.
BatchResponse(rq) ==
    [NoResponse EXCEPT
        !.status = 200,
        !.totalProcessed = Len(rq.playlistTracks),
        !.successCount = Len(rq.results.success),
        !.failedCount = Len(rq.results.failed),
        !.skippedCount = Len(rq.results.skipped),
        !.results = rq.results]

\* The outer catch: 500 with the error's message.
FetchFailedAsEmptyList(rq) ==
    [rq EXCEPT !.playlistTracks = <<>>, !.pc = "loop", !.calls = {}]

FetchFailed(rq) ==
    [rq EXCEPT !.pc = "done", !.calls = {},
               !.response = ErrorResponse(500, ErrorMsg("Failed to fetch playlist tracks"))]

\* The request arrives: credentials, the playlist id, then fetchPlaylistTracks.
StartPlaylist(r, validUrl) ==
    /\ running = None
    /\ FreeSlot(r)
    /\ events > 0
    /\ events' = events - 1
    /\ LET rq == [IdleRequest EXCEPT !.kind = "playlist"] IN
       IF ~env.spotify \/ env.geminiApiKeys = 0
       THEN Step(r, [rq EXCEPT !.pc = "done",
                        !.response = ErrorResponse(500, ErrorMsg("Missing API credentials"))],
                 NoObservation)
       ELSE IF ~validUrl
       THEN Step(r, [rq EXCEPT !.pc = "done",
                        !.response = ErrorResponse(400, ErrorMsg("Invalid Spotify playlist URL"))],
                 NoObservation)
       ELSE Step(r, [rq EXCEPT !.pc = "fetchPlaylistTracks",
                               !.calls = {Call("spotify", -1, -1)}],
                 NoObservation)
    /\ UNCHANGED <<tracks, nextId, env, playlists, now, chatVars, page, running, nucleusVars, parser>>

\* fetchPlaylistTracks settles: the track list, or an error for the outer catch.
PlaylistFetched(r) ==
    /\ running = None
    /\ req[r].pc = "fetchPlaylistTracks"
    /\ \/ /\ events > 0
          /\ events' = events - 1
          /\ Step(r, FetchFailed(req[r]), [obs[r] EXCEPT !.fetchFailed = TRUE])
          /\ running' = IF req'[r].pc = "done" THEN None ELSE r
       \/ /\ \E pl \in playlists :
                Step(r, [req[r] EXCEPT !.playlistTracks = pl, !.pc = "loop",
                                       !.calls = {}],
                     [obs[r] EXCEPT !.inserted = [j \in 1 .. Len(pl) |-> 0]])
          /\ running' = r
          /\ UNCHANGED events
    /\ UNCHANGED <<tracks, nextId, env, playlists, now, chatVars, page, nucleusVars, parser>>

\* The head of the candidate loop: the for condition, then the target check.
LoopHead(r) ==
    /\ running = r
    /\ req[r].pc = "loop"
    /\ IF req[r].i < Len(req[r].playlistTracks)
          /\ ~ReachedTarget(Len(req[r].results.success))
       THEN Step(r, [req[r] EXCEPT !.pc = "check"],
                 [obs[r] EXCEPT !.attempted = @ \cup {req[r].i},
                                !.rotation = NoRotation])
       ELSE Step(r, [req[r] EXCEPT !.pc = "respond"], obs[r])
    /\ UNCHANGED <<tracks, nextId, env, playlists, now, chatVars, page, running, events, nucleusVars, parser>>

\* trackQueries.getBySpotifyId.get(spotifyId) and the skip.
CheckDuplicate(r) ==
    /\ running = r
    /\ req[r].pc = "check"
    /\ LET existing == GetBySpotifyId(tracks, Candidate(req[r]))
           ob == IF existing # NoRow
                 THEN [obs[r] EXCEPT !.dupSeen = @ \cup {req[r].i}]
                 ELSE obs[r]
       IN IF Found(existing)
          THEN Step(r, PushSkipped(req[r]), ob)
          ELSE Step(r, [req[r] EXCEPT !.pc = "lyrics"], ob)
    /\ UNCHANGED <<tracks, nextId, env, playlists, now, chatVars, page, running, events, nucleusVars, parser>>

\* if (geniusToken) searchGeniusLyrics(...); without a token lyrics stays null.
SearchLyrics(r) ==
    /\ running = r
    /\ req[r].pc = "lyrics"
    /\ IF env.geniusToken
       THEN /\ Step(r, [req[r] EXCEPT !.pc = "awaitLyrics",
                                      !.calls = @ \cup {Call("genius", req[r].i, -1)}],
                    [obs[r] EXCEPT !.providerCalls = @ + 1])
            /\ running' = None
       ELSE /\ Step(r, PushFailed(req[r], ErrorMsg("No lyrics found")),
                    [obs[r] EXCEPT !.noLyrics = @ \cup {req[r].i}])
            /\ UNCHANGED running
    /\ UNCHANGED <<tracks, nextId, env, playlists, now, chatVars, page, events, nucleusVars, parser>>

\* searchGeniusLyrics settles (it never throws): lyrics, or null.
LyricsReturned(r) ==
    /\ running = None
    /\ req[r].pc = "awaitLyrics"
    /\ running' = r
    /\ LET done == [req[r] EXCEPT
                       !.calls = CallsAfterAwait(@, Call("genius", req[r].i, -1))]
       IN \/ /\ Step(r, [done EXCEPT !.pc = "rotate", !.keyIdx = FirstKey(req[r]),
                                     !.lastError = NullError, !.lyrics = "text"],
                     [obs[r] EXCEPT !.rotation = [NoRotation EXCEPT !.status = "running"]])
             /\ UNCHANGED events
          \/ /\ events > 0
             /\ events' = events - 1
             /\ Step(r, PushFailed(done, ErrorMsg("No lyrics found")),
                     [obs[r] EXCEPT !.noLyrics = @ \cup {req[r].i}])
    /\ UNCHANGED <<tracks, nextId, env, playlists, now, chatVars, page, nucleusVars, parser>>

\* The head of the rotation loop: the next key's attempt, or the aggregate
\* error, which the candidate's catch block turns into a failed entry.
Rotate(r) ==
    /\ running = r
    /\ req[r].pc = "rotate"
    /\ IF HasKey(req[r].keyIdx, env.geminiApiKeys)
       THEN /\ Step(r, [req[r] EXCEPT !.pc = "awaitOperation",
                           !.calls = @ \cup {Call("gemini", req[r].i, req[r].keyIdx)}],
                    [obs[r] EXCEPT !.rotation.calls = Append(@, req[r].keyIdx),
                                   !.providerCalls = @ + 1,
                                   !.analysed = @ \cup {req[r].i}])
            /\ running' = None
       ELSE /\ LET error == RotationError(env.geminiApiKeys, req[r].lastError)
               IN Step(r, PushFailed(req[r], error),
                       [obs[r] EXCEPT !.rotation.status = "threw",
                                      !.rotation.error = error])
            /\ UNCHANGED running
    /\ UNCHANGED <<tracks, nextId, env, playlists, now, chatVars, page, events, nucleusVars, parser>>

\* operation(apiKeys[i]) settles: its result is returned at once, or the error
\* is recorded and the loop moves to the next key.
OperationReturned(r) ==
    /\ running = None
    /\ req[r].pc = "awaitOperation"
    /\ running' = r
    /\ LET call == Call("gemini", req[r].i, req[r].keyIdx)
           done == [req[r] EXCEPT !.calls = CallsAfterAwait(@, call)]
       IN \/ \E answer \in Analyses :
                /\ events >= AnswerCost(answer)
                /\ events' = events - AnswerCost(answer)
                /\ Step(r, [Analysed(done, answer) EXCEPT !.pc = "insert"],
                        [obs[r] EXCEPT !.rotation.status = "returned",
                                       !.rotation.resultKey = req[r].keyIdx,
                                       !.offEnum = @ \cup OffEnum(answer, req[r].i)])
          \/ /\ events > 0
             /\ events' = events - 1
             /\ \E thrown \in Thrown :
                   Step(r, [done EXCEPT !.pc = "rotate",
                               !.lastError = LastErrorAfter(@, thrown),
                               !.keyIdx = NextKey(@)],
                        [obs[r] EXCEPT !.rotation.thrown = Append(@, thrown)])
    /\ UNCHANGED <<tracks, nextId, env, playlists, now, chatVars, page, nucleusVars, parser>>

\* trackQueries.insert.run(...), getById and the push; a rejected insert throws
\* into the candidate's catch block.
InsertTrack(r) ==
    /\ running = r
    /\ req[r].pc = "insert"
    /\ LET sid == Candidate(req[r])
           error == InsertError(tracks, sid, req[r].emotion)
       IN IF error = NoError
          THEN /\ tracks' = InsertRun(tracks, nextId, sid, req[r].lyrics,
                                      AnalysisOf(req[r]), now)
               /\ nextId' = nextId + 1
               /\ Step(r, PushSuccess(req[r], GetById(tracks', nextId)),
                       [obs[r] EXCEPT !.inserted[req[r].i + 1] = @ + 1])
          ELSE /\ Step(r, PushFailed(req[r], error),
                       IF error = UniqueViolation
                       THEN [obs[r] EXCEPT !.rejected = @ \cup {req[r].i}]
                       ELSE obs[r])
               /\ UNCHANGED <<tracks, nextId>>
    /\ UNCHANGED <<env, playlists, now, chatVars, page, running, events, nucleusVars, parser>>

\* The loop is over: 200 with the buckets.
Respond(r) ==
    /\ running = r
    /\ req[r].pc = "respond"
    /\ Step(r, [req[r] EXCEPT !.pc = "done", !.response = BatchResponse(req[r])],
            obs[r])
    /\ running' = None
    /\ UNCHANGED <<tracks, nextId, env, playlists, now, chatVars, page, events, nucleusVars, parser>>

Batch(r) ==
    \/ \E validUrl \in BOOLEAN : StartPlaylist(r, validUrl)
    \/ PlaylistFetched(r)
    \/ LoopHead(r)
    \/ CheckDuplicate(r)
    \/ SearchLyrics(r)
    \/ LyricsReturned(r)
    \/ Rotate(r)
    \/ OperationReturned(r)
    \/ InsertTrack(r)
    \/ Respond(r)

(* --------------------------- POST /api/tracks/analyze ------------------- *)
Finish(rq, response) == [rq EXCEPT !.pc = "done", !.calls = {}, !.response = response]

\* 409 { error: 'Track already exists', track: existing }
ConflictWithoutTrack(existing) == ErrorResponse(409, ErrorMsg("Track already exists"))

Conflict(existing) ==
    [ErrorResponse(409, ErrorMsg("Track already exists")) EXCEPT !.track = existing]

\* The request arrives: credentials, the track id, the duplicate lookup, then
\* fetchSpotifyMetadata.  trackId 0 stands for a URL with no track id in it.
StartSingle(r, trackId) ==
    /\ running = None
    /\ FreeSlot(r)
    /\ events > 0
    /\ events' = events - 1
    /\ LET rq == [IdleRequest EXCEPT !.kind = "single", !.trackId = trackId,
                                     !.playlistTracks = <<trackId>>]
           existing == GetBySpotifyId(tracks, trackId)
           ob == [NoObservation EXCEPT !.inserted = <<0>>]
       IN IF ~env.spotify \/ ~env.geminiApiKey
          THEN Step(r, Finish(rq, ErrorResponse(500, ErrorMsg("Missing API credentials"))),
                    ob)
          ELSE IF trackId = 0
          THEN Step(r, Finish(rq, ErrorResponse(400, ErrorMsg("Invalid Spotify URL"))), ob)
          ELSE IF Found(existing)
          THEN Step(r, Finish(rq, Conflict(existing)),
                    [ob EXCEPT !.attempted = {0}, !.dupSeen = {0}])
          ELSE Step(r, [rq EXCEPT !.pc = "fetchSpotifyMetadata",
                                  !.calls = {Call("spotify", 0, -1)}],
                    [ob EXCEPT !.attempted = {0}])
    /\ UNCHANGED <<tracks, nextId, env, playlists, now, chatVars, page, running, nucleusVars, parser>>

\* fetchSpotifyMetadata settles; then the lyrics search, or 422 without a token.
MetadataFetched(r) ==
    /\ running = None
    /\ req[r].pc = "fetchSpotifyMetadata"
    /\ \/ /\ events > 0
          /\ events' = events - 1
          /\ Step(r, Finish(req[r], ErrorResponse(500,
                        ErrorMsg("Failed to fetch Spotify metadata"))), obs[r])
       \/ /\ UNCHANGED events
          /\ IF env.geniusToken
             THEN Step(r, [req[r] EXCEPT !.pc = "awaitLyricsSingle",
                                         !.calls = {Call("genius", 0, -1)}],
                       [obs[r] EXCEPT !.providerCalls = @ + 1])
             ELSE Step(r, Finish(req[r], ErrorResponse(422,
                             ErrorMsg("No lyrics found for this track"))),
                       [obs[r] EXCEPT !.noLyrics = {0}])
    /\ UNCHANGED <<tracks, nextId, env, playlists, now, chatVars, page, running, nucleusVars, parser>>

\* searchGeniusLyrics settles: 422 without lyrics, else analyzeLyrics.
SingleLyricsReturned(r) ==
    /\ running = None
    /\ req[r].pc = "awaitLyricsSingle"
    /\ \/ /\ events > 0
          /\ events' = events - 1
          /\ Step(r, Finish(req[r], ErrorResponse(422,
                        ErrorMsg("No lyrics found for this track"))),
                  [obs[r] EXCEPT !.noLyrics = {0}])
       \/ /\ UNCHANGED events
          /\ Step(r, [req[r] EXCEPT !.pc = "awaitAnalysis", !.lyrics = "text",
                                    !.calls = {Call("gemini", 0, 0)}],
                  [obs[r] EXCEPT !.providerCalls = @ + 1, !.analysed = {0}])
    /\ UNCHANGED <<tracks, nextId, env, playlists, now, chatVars, page, running, nucleusVars, parser>>

\* trackQueries.insert.run(...), getById and 201; a rejected insert throws into
\* the outer catch: 500.
InsertAndAnswer(r, rq, ob) ==
    LET error == InsertError(tracks, rq.trackId, rq.emotion) IN
    IF error = NoError
    THEN /\ tracks' = InsertRun(tracks, nextId, rq.trackId, rq.lyrics,
                                AnalysisOf(rq), now)
         /\ nextId' = nextId + 1
         /\ Step(r, Finish(rq, [NoResponse EXCEPT !.status = 201,
                                    !.track = GetById(tracks', nextId)]),
                 [ob EXCEPT !.inserted[1] = @ + 1])
    ELSE /\ Step(r, Finish(rq, ErrorResponse(500, error)),
                 IF error = UniqueViolation THEN [ob EXCEPT !.rejected = {0}] ELSE ob)
         /\ UNCHANGED <<tracks, nextId>>

\* analyzeLyrics settles; on success the insert, getById and 201.  Whatever is
\* thrown, by the analysis or by the insert, reaches the outer catch: 500.
AnalysisReturned(r) ==
    /\ running = None
    /\ req[r].pc = "awaitAnalysis"
    /\ \/ /\ events > 0
          /\ events' = events - 1
          /\ \E thrown \in Thrown :
                Step(r, Finish(req[r], ErrorResponse(500, ErrorMsg(AsError(thrown)))),
                     obs[r])
          /\ UNCHANGED <<tracks, nextId>>
       \/ \E answer \in Analyses :
             /\ events >= AnswerCost(answer)
             /\ events' = events - AnswerCost(answer)
             /\ InsertAndAnswer(r, Analysed(req[r], answer),
                                [obs[r] EXCEPT !.offEnum = OffEnum(answer, 0)])
    /\ UNCHANGED <<env, playlists, now, chatVars, page, running, nucleusVars, parser>>

Single(r) ==
    \/ \E trackId \in {0} \cup SpotifyIds : StartSingle(r, trackId)
    \/ MetadataFetched(r)
    \/ SingleLyricsReturned(r)
    \/ AnalysisReturned(r)

(* ------------------ POST /api/tracks/analyze (audio analysis) ----------- *)
\* The request arrives: credentials, the track id, the duplicate lookup, then
\* fetchSpotifyMetadata.
StartAudio(r, trackId) ==
    /\ running = None
    /\ FreeSlot(r)
    /\ events > 0
    /\ events' = events - 1
    /\ LET rq == [IdleRequest EXCEPT !.kind = "audio", !.trackId = trackId,
                                     !.playlistTracks = <<trackId>>]
           existing == GetBySpotifyId(tracks, trackId)
           ob == [NoObservation EXCEPT !.inserted = <<0>>]
       IN IF ~env.spotify \/ ~env.geminiApiKey
          THEN Step(r, Finish(rq, ErrorResponse(500, ErrorMsg("Missing API credentials"))),
                    ob)
          ELSE IF trackId = 0
          THEN Step(r, Finish(rq, ErrorResponse(400, ErrorMsg("Invalid Spotify URL"))), ob)
          ELSE IF Found(existing)
          THEN Step(r, Finish(rq, Conflict(existing)),
                    [ob EXCEPT !.attempted = {0}, !.dupSeen = {0}])
          ELSE Step(r, [rq EXCEPT !.pc = "fetchSpotifyMetadataAudio",
                                  !.calls = {Call("spotify", 0, -1)}],
                    [ob EXCEPT !.attempted = {0}])
    /\ UNCHANGED <<tracks, nextId, env, playlists, now, chatVars, page, running, nucleusVars, parser>>

\* fetchSpotifyMetadata settles; with a preview_url the preview is downloaded
\* and analysed, without one the embed is.
AudioMetadataFetched(r) ==
    /\ running = None
    /\ req[r].pc = "fetchSpotifyMetadataAudio"
    /\ \/ /\ events > 0
          /\ events' = events - 1
          /\ Step(r, Finish(req[r], ErrorResponse(500,
                        ErrorMsg("Failed to fetch Spotify metadata"))), obs[r])
       \/ /\ UNCHANGED events
          /\ \E preview_url \in BOOLEAN :
                Step(r, [req[r] EXCEPT
                            !.pc = IF preview_url THEN "analyzeAudioFile"
                                   ELSE "analyzeSpotifyEmbed",
                            !.calls = {Call("gemini", 0, 0)}],
                     [obs[r] EXCEPT !.providerCalls = @ + 1, !.analysed = {0}])
    /\ UNCHANGED <<tracks, nextId, env, playlists, now, chatVars, page, running, nucleusVars, parser>>

\* trackQueries.insert.run(...) with AudioInsertValues values, getById and 201;
\* a rejected insert throws into the outer catch: 500.
AudioInsertAndAnswer(r, rq, ob) ==
    IF ArityError(AudioInsertValues) = NoError
    THEN InsertAndAnswer(r, rq, ob)
    ELSE /\ Step(r, Finish(rq, ErrorResponse(500, ArityError(AudioInsertValues))), ob)
         /\ UNCHANGED <<tracks, nextId>>

\* let lyrics = null; if (geniusToken) searchGeniusLyrics(...); then the insert
\* with whatever lyrics holds.
AudioLyrics(r, rq, ob) ==
    IF env.geniusToken
    THEN /\ Step(r, [rq EXCEPT !.pc = "awaitLyricsAudio",
                               !.calls = {Call("genius", 0, -1)}],
                 [ob EXCEPT !.providerCalls = @ + 1])
         /\ UNCHANGED <<tracks, nextId>>
    ELSE AudioInsertAndAnswer(r, [rq EXCEPT !.lyrics = Null],
                              [ob EXCEPT !.noLyrics = {0}])

\* downloadPreviewMp3 and analyzeAudioFile settle: the analysis, or the fall
\* back to the embed.
AudioFileAnalysed(r) ==
    /\ running = None
    /\ req[r].pc = "analyzeAudioFile"
    /\ \/ /\ events > 0
          /\ events' = events - 1
          /\ Step(r, [req[r] EXCEPT !.pc = "analyzeSpotifyEmbed"],
                  [obs[r] EXCEPT !.providerCalls = @ + 1])
          /\ UNCHANGED <<tracks, nextId>>
       \/ \E answer \in Analyses :
             /\ events >= AnswerCost(answer)
             /\ events' = events - AnswerCost(answer)
             /\ AudioLyrics(r, Analysed(req[r], answer),
                            [obs[r] EXCEPT !.offEnum = OffEnum(answer, 0)])
    /\ UNCHANGED <<env, playlists, now, chatVars, page, running, nucleusVars, parser>>

\* analyzeSpotifyEmbed settles: the analysis, or an error for the outer catch.
EmbedAnalysed(r) ==
    /\ running = None
    /\ req[r].pc = "analyzeSpotifyEmbed"
    /\ \/ /\ events > 0
          /\ events' = events - 1
          /\ \E thrown \in Thrown :
                Step(r, Finish(req[r], ErrorResponse(500, ErrorMsg(AsError(thrown)))),
                     obs[r])
          /\ UNCHANGED <<tracks, nextId>>
       \/ \E answer \in Analyses :
             /\ events >= AnswerCost(answer)
             /\ events' = events - AnswerCost(answer)
             /\ AudioLyrics(r, Analysed(req[r], answer),
                            [obs[r] EXCEPT !.offEnum = OffEnum(answer, 0)])
    /\ UNCHANGED <<env, playlists, now, chatVars, page, running, nucleusVars, parser>>

\* searchGeniusLyrics settles: lyrics, or null; the insert is run either way.
AudioLyricsReturned(r) ==
    /\ running = None
    /\ req[r].pc = "awaitLyricsAudio"
    /\ \/ /\ events > 0
          /\ events' = events - 1
          /\ AudioInsertAndAnswer(r, [req[r] EXCEPT !.lyrics = Null],
                                  [obs[r] EXCEPT !.noLyrics = {0}])
       \/ /\ UNCHANGED events
          /\ AudioInsertAndAnswer(r, [req[r] EXCEPT !.lyrics = "text"], obs[r])
    /\ UNCHANGED <<env, playlists, now, chatVars, page, running, nucleusVars, parser>>

Audio(r) ==
    \/ \E trackId \in {0} \cup SpotifyIds : StartAudio(r, trackId)
    \/ AudioMetadataFetched(r)
    \/ AudioFileAnalysed(r)
    \/ EmbedAnalysed(r)
    \/ AudioLyricsReturned(r)

(* --------------------------- DELETE /api/tracks ------------------------- *)
\* trackQueries.delete.run(id), for any id the table has ever assigned.
DeleteTrack(id) ==
    /\ running = None
    /\ events > 0
    /\ events' = events - 1
    /\ tracks' = DeleteRun(tracks, id)
    /\ UNCHANGED <<nextId, env, playlists, now, chatVars, page, running, req, obs, nucleusVars, parser>>

(* ------------------------------ the clock ------------------------------ *)
\* A second passes.
Tick ==
    /\ events > 0
    /\ events' = events - 1
    /\ now' = now + 1
    /\ UNCHANGED <<tracks, nextId, env, playlists, chatVars, page, running, req, obs, nucleusVars, parser>>

(* --------------------------- the framework ----------------------------- *)
\* The Response a handler returned is sent; its locals are gone.
Deliver(r) ==
    /\ running = None
    /\ req[r].pc = "done"
    /\ Step(r, IdleRequest, NoObservation)
    /\ UNCHANGED <<tracks, nextId, env, playlists, now, chatVars, page, running, events, nucleusVars, parser>>

(* ------------------------------ chat_messages -------------------------- *)
\* two chat request slots: two chat requests may be in flight together
ChatRequests == {"c1", "c2"}

\* The emotion channels chatted in.
ChatChannels == {"joy", "calm"}

\* A text: the user's message number n, Gemini's reply to it, the empty
\* string, and the text that is not there.
Text(by, n) == [by |-> by, n |-> n]
Message(n) == Text("user", n)
Reply(n) == Text("gemini", n)
EmptyText == Text("", 0)
UndefinedText == Text(Undefined, 0)

\* What result.text may be when generateContent resolves without text.
NoText == {EmptyText, UndefinedText}

TextBindable(text) == Bindable(text.by)

\* ORDER BY timestamp leaves the order of rows of one second open: they come
\* in the order of their rowids, or against it.
TieOrders == {"rowid ascending", "rowid descending"}

TieBefore(a, b, tie) ==
    IF tie = "rowid ascending" THEN a.id < b.id ELSE a.id > b.id

Reverse(seq) == [k \in 1 .. Len(seq) |-> seq[Len(seq) + 1 - k]]

Rows(tbl) == {tbl[k] : k \in DOMAIN tbl}

\* ORDER BY timestamp DESC
OrderByTimestampDesc(rows, tie) ==
    [k \in 1 .. Cardinality(rows) |->
        CHOOSE a \in rows :
            Cardinality({b \in rows :
                \/ b.timestamp > a.timestamp
                \/ b.timestamp = a.timestamp /\ TieBefore(b, a, tie)}) = k - 1]

\* ORDER BY timestamp ASC
OrderByTimestampAsc(rows, tie) ==
    [k \in 1 .. Cardinality(rows) |->
        CHOOSE a \in rows :
            Cardinality({b \in rows :
                \/ b.timestamp < a.timestamp
                \/ b.timestamp = a.timestamp /\ TieBefore(b, a, tie)}) = k - 1]

\* LIMIT ?
Limit(seq, n) == SubSeq(seq, 1, Min(n, Len(seq)))

\* WHERE emotion = ?
WhereEmotion(tbl, emotion) == {row \in Rows(tbl) : row.emotion = emotion}

\* chatQueries.getAll, getRecent, getByEmotion, getRecentByEmotion
ChatGetAll(tbl, tie) == OrderByTimestampAsc(Rows(tbl), tie)

GetRecent(tbl, limit, tie) == Limit(OrderByTimestampDesc(Rows(tbl), tie), limit)

ChatGetByEmotion(tbl, emotion, tie) ==
    OrderByTimestampAsc(WhereEmotion(tbl, emotion), tie)

GetRecentByEmotion(tbl, emotion, limit, tie) ==
    Limit(OrderByTimestampDesc(WhereEmotion(tbl, emotion), tie), limit)

\* chatQueries.insert / insertWithEmotion: timestamp DEFAULT CURRENT_TIMESTAMP,
\* emotion DEFAULT NULL
ChatInsertRun(tbl, id, role, content, emotion, at) ==
    Append(tbl, [id |-> id, role |-> role, content |-> content,
                 timestamp |-> at, emotion |-> emotion])

(* --------------------------- the chat context -------------------------- *)
\* trackQueries.getAll: SELECT * FROM tracks ORDER BY added_at DESC
OrderByAddedAtDesc(rows, tie) ==
    [k \in 1 .. Cardinality(rows) |->
        CHOOSE a \in rows :
            Cardinality({b \in rows :
                \/ b.added_at > a.added_at
                \/ b.added_at = a.added_at /\ TieBefore(b, a, tie)}) = k - 1]

TracksGetAll(tbl, tie) == OrderByAddedAtDesc(Rows(tbl), tie)

\* const allEmotions = [...]
allEmotions ==
    <<"joy", "sadness", "anger", "fear", "love", "surprise", "calm", "nostalgia">>

\* emotionCounts: the entries of the object, in the order the keys were added
HasKeyOf(emotionCounts, emotion) ==
    \E k \in DOMAIN emotionCounts : emotionCounts[k].emotion = emotion

\* emotionCounts[e], 0 standing for undefined
CountOf(emotionCounts, emotion) ==
    IF HasKeyOf(emotionCounts, emotion)
    THEN emotionCounts[CHOOSE k \in DOMAIN emotionCounts :
                           emotionCounts[k].emotion = emotion].count
    ELSE 0

\* emotionCounts[track.emotion] = (emotionCounts[track.emotion] || 0) + 1
CountEmotion(emotionCounts, emotion) ==
    IF HasKeyOf(emotionCounts, emotion)
    THEN [k \in DOMAIN emotionCounts |->
             IF emotionCounts[k].emotion = emotion
             THEN [emotionCounts[k] EXCEPT !.count = @ + 1]
             ELSE emotionCounts[k]]
    ELSE Append(emotionCounts, [emotion |-> emotion, count |-> 1])

NoTotals ==
    [emotionCounts |-> <<>>, totalValence |-> 0, totalEnergy |-> 0,
     validValenceCount |-> 0, validEnergyCount |-> 0]

\* if (track.valence !== null && track.valence !== undefined)
Valid(value) == value # NullReal

\* The body of tracks.forEach(track => ...)
Visit(acc, track) ==
    [acc EXCEPT
        !.emotionCounts = CountEmotion(@, track.emotion),
        !.totalValence = IF Valid(track.valence) THEN @ + track.valence ELSE @,
        !.validValenceCount = IF Valid(track.valence) THEN @ + 1 ELSE @,
        !.totalEnergy = IF Valid(track.energy) THEN @ + track.energy ELSE @,
        !.validEnergyCount = IF Valid(track.energy) THEN @ + 1 ELSE @]

RECURSIVE ForEach(_, _)
ForEach(trs, acc) ==
    IF trs = <<>> THEN acc ELSE ForEach(Tail(trs), Visit(acc, Head(trs)))

\* A quotient of two numbers, kept as the pair.
Quotient(num, den) == [num |-> num, den |-> den]

\* validValenceCount > 0 ? totalValence / validValenceCount : 0
Average(total, count) == IF count > 0 THEN Quotient(total, count) ELSE Quotient(0, 1)

\* The comparator of the sort of the entries: negative when a comes before b.
CompareCountsAscending(a, b) == a.count - b.count

CompareCounts(a, b) == b.count - a.count

\* Object.entries(emotionCounts).sort(([, a], [, b]) => b - a): the sort is
\* stable
SortedEmotions(emotionCounts) ==
    [k \in 1 .. Len(emotionCounts) |->
        emotionCounts[CHOOSE i \in DOMAIN emotionCounts :
            Cardinality({j \in DOMAIN emotionCounts :
                \/ CompareCounts(emotionCounts[j], emotionCounts[i]) < 0
                \/ /\ CompareCounts(emotionCounts[j], emotionCounts[i]) = 0
                   /\ j < i}) = k - 1]]

\* x.toFixed(0) of the quotient x = num / den, neither negative: the nearest
\* integer, the larger of two that are as near
ToFixed0(num, den) == (2 * num + den) \div (2 * den)

\* allEmotions.filter(e => !emotionCounts[e] || emotionCounts[e] === 0)
AbsentEmotions(emotionCounts) ==
    SelectSeq(allEmotions, LAMBDA e : CountOf(emotionCounts, e) = 0)

\* What the system prompt is given of the collection; `tracks` is the
\* collection as it was read.
NoContext ==
    [tracks |-> <<>>, emotionCounts |-> <<>>, avgValence |-> Quotient(0, 1),
     avgEnergy |-> Quotient(0, 1), dominantEmotion |-> Null,
     dominantPercentage |-> 0, absentEmotions |-> <<>>]

\* sortedEmotions[0] of no entries is undefined, and dominantEmotion[1] throws
ContextThrows(trs) == SortedEmotions(ForEach(trs, NoTotals).emotionCounts) = <<>>

Context(trs) ==
    LET totals == ForEach(trs, NoTotals)
        dominantEmotion == SortedEmotions(totals.emotionCounts)[1]
    IN [tracks |-> trs,
        emotionCounts |-> totals.emotionCounts,
        avgValence |-> Average(totals.totalValence, totals.validValenceCount),
        avgEnergy |-> Average(totals.totalEnergy, totals.validEnergyCount),
        dominantEmotion |-> dominantEmotion.emotion,
        dominantPercentage |-> ToFixed0(dominantEmotion.count * 100, Len(trs)),
        absentEmotions |-> AbsentEmotions(totals.emotionCounts)]

(* ------------------ POST /api/chat/message, /api/chat/emotion ----------- *)
NoChatResponse == [status |-> 0, response |-> UndefinedText, error |-> NoError]

ChatError(status, msg) == [NoChatResponse EXCEPT !.status = status, !.error = msg]

\* The locals of the chat handler in progress; `before`, `window` and
\* `provider` are observations: the table when the request arrived, the rows
\* read as recent messages, and how the provider call ended.  `context` is
\* what the system prompt of the global chat was built from.
IdleChat ==
    [pc |-> "idle", kind |-> "none", message |-> UndefinedText, emotion |-> Null,
     contents |-> <<>>, keyIdx |-> 0, lastError |-> NullError,
     response |-> NoChatResponse, before |-> <<>>, window |-> <<>>,
     provider |-> "none", context |-> NoContext]

\* role: msg.role === 'user' ? 'user' : 'model', parts: [{ text: msg.content }]
RoleOfTurn(msg) == IF msg.role = "user" THEN "user" ELSE "model"

Turn(role, text) == [role |-> role, text |-> text]

\* recentMessages.reverse().map(...)
ConversationHistory(recentMessages) ==
    [k \in 1 .. Len(recentMessages) |->
        Turn(RoleOfTurn(Reverse(recentMessages)[k]), Reverse(recentMessages)[k].content)]

SystemPromptTurn == Turn("user", Text("systemPrompt", 0))

ChatDone(ch, response) == [ch EXCEPT !.pc = "done", !.response = response]

\* chatQueries.insert.run('user', message, ...), then run('assistant',
\* response, ...).
SaveUser(tbl, id, ch, at) ==
    ChatInsertRun(tbl, id, "user", ch.message, ch.emotion, at)

SaveTurnReplyFirst(tbl, id, ch, response, at) ==
    ChatInsertRun(ChatInsertRun(tbl, id, "assistant", response, ch.emotion, at),
                  id + 1, "user", ch.message, ch.emotion, at)

SaveTurn(tbl, id, ch, response, at) ==
    ChatInsertRun(ChatInsertRun(tbl, id, "user", ch.message, ch.emotion, at),
                  id + 1, "assistant", response, ch.emotion, at)

\* POST /api/chat/message arrives: the keys, the collection and its statistics
\* (the dominant emotion of an empty collection is undefined, and reading it
\* throws), the recent messages, then chatWithRotation's first attempt.
StartChat(c) ==
    /\ chat[c].pc = "idle"
    /\ events > 0
    /\ events' = events - 1
    /\ \E tie \in TieOrders, trackTie \in TieOrders :
          LET ch == [IdleChat EXCEPT !.kind = "global", !.message = Message(nextMsgId),
                                     !.before = chat_messages]
              trs == TracksGetAll(tracks, trackTie)
              recentMessages == GetRecent(chat_messages, RecentLimit, tie)
          IN chat' = [chat EXCEPT ![c] =
                IF env.geminiApiKeys = 0
                THEN ChatDone(ch, ChatError(500, ErrorMsg("No Gemini API keys configured")))
                ELSE IF ContextThrows(trs)
                THEN ChatDone(ch, ChatError(500,
                         ErrorMsg("Cannot read properties of undefined (reading '1')")))
                ELSE [ch EXCEPT !.pc = "chatWithRotation",
                                !.context = Context(trs),
                                !.window = recentMessages,
                                !.contents = <<SystemPromptTurn>>
                                    \o ConversationHistory(recentMessages)
                                    \o <<Turn("user", ch.message)>>,
                                !.keyIdx = FirstKey(ch), !.lastError = NullError]]
    /\ UNCHANGED <<tracks, nextId, env, playlists, running, req, obs, now,
                   chat_messages, nextMsgId, page, nucleusVars, parser>>

\* An attempt of chatWithRotation settles: text is saved and answered; an
\* empty text or an error moves on to the next key, or exhausts the pool.
ChatOperationReturned(c) ==
    /\ chat[c].pc = "chatWithRotation"
    /\ \/ /\ UNCHANGED events
          /\ LET response == Reply(chat[c].message.n) IN
             /\ chat_messages' = SaveTurn(chat_messages, nextMsgId, chat[c], response, now)
             /\ nextMsgId' = nextMsgId + 2
             /\ chat' = [chat EXCEPT ![c] =
                            ChatDone([chat[c] EXCEPT !.provider = "text"],
                                     [NoChatResponse EXCEPT !.status = 200,
                                                            !.response = response])]
       \/ /\ events > 0
          /\ events' = events - 1
          /\ \E thrown \in Thrown \cup
                          {[isError |-> TRUE, message |-> "Empty response from Gemini"]} :
                LET lastError == LastErrorAfter(chat[c].lastError, thrown)
                    i == NextKey(chat[c].keyIdx)
                IN chat' = [chat EXCEPT ![c] =
                      IF HasKey(i, env.geminiApiKeys)
                      THEN [chat[c] EXCEPT !.keyIdx = i, !.lastError = lastError]
                      ELSE ChatDone([chat[c] EXCEPT !.provider = "failed", !.keyIdx = i,
                                                 !.lastError = lastError],
                                    ChatError(500, RotationError(env.geminiApiKeys,
                                                                 lastError)))]
          /\ UNCHANGED <<chat_messages, nextMsgId>>
    /\ UNCHANGED <<tracks, nextId, env, playlists, running, req, obs, now, page, nucleusVars, parser>>

\* POST /api/chat/emotion arrives: message and emotion, the key, the recent
\* messages of the emotion, then generateContent.
StartEmotionChat(c, hasMessage, emotion) ==
    /\ chat[c].pc = "idle"
    /\ events > 0
    /\ events' = events - 1
    /\ \E tie \in TieOrders :
          LET ch == [IdleChat EXCEPT !.kind = "emotion", !.emotion = emotion,
                                     !.message = IF hasMessage THEN Message(nextMsgId)
                                                 ELSE EmptyText,
                                     !.before = chat_messages]
              recentMessages == GetRecentByEmotion(chat_messages, emotion,
                                                   RecentLimit, tie)
          IN chat' = [chat EXCEPT ![c] =
                IF ~hasMessage
                THEN ChatDone(ch, ChatError(400, ErrorMsg("Message and emotion required")))
                ELSE IF ~env.geminiApiKey
                THEN ChatDone(ch, ChatError(500, ErrorMsg("Missing Gemini API key")))
                ELSE [ch EXCEPT !.pc = "generateContent",
                                !.window = recentMessages,
                                !.contents = ConversationHistory(recentMessages)
                                    \o <<Turn("user", ch.message)>>]]
    /\ UNCHANGED <<tracks, nextId, env, playlists, running, req, obs, now,
                   chat_messages, nextMsgId, page, nucleusVars, parser>>

\* generateContent settles.  Whatever result.text is, the user's message is
\* saved, then the assistant's: a text that cannot be bound throws into the
\* catch block after the first insert.
EmotionChatReturned(c) ==
    /\ chat[c].pc = "generateContent"
    /\ \/ /\ events > 0
          /\ events' = events - 1
          /\ \E thrown \in Thrown :
                chat' = [chat EXCEPT ![c] =
                            ChatDone([chat[c] EXCEPT !.provider = "failed"],
                                     ChatError(500, ErrorMsg(AsError(thrown))))]
          /\ UNCHANGED <<chat_messages, nextMsgId>>
       \/ \E response \in {Reply(chat[c].message.n)} \cup NoText :
             /\ events >= (IF response \in NoText THEN 1 ELSE 0)
             /\ events' = events - (IF response \in NoText THEN 1 ELSE 0)
             /\ IF TextBindable(response)
                THEN /\ chat_messages' =
                            SaveTurn(chat_messages, nextMsgId, chat[c], response, now)
                     /\ nextMsgId' = nextMsgId + 2
                     /\ chat' = [chat EXCEPT ![c] = ChatDone(
                            [chat[c] EXCEPT !.provider = IF response \in NoText
                                                         THEN "no text" ELSE "text"],
                            [NoChatResponse EXCEPT !.status = 200,
                                                   !.response = response])]
                ELSE /\ chat_messages' =
                            SaveUser(chat_messages, nextMsgId, chat[c], now)
                     /\ nextMsgId' = nextMsgId + 1
                     /\ chat' = [chat EXCEPT ![c] =
                            ChatDone([chat[c] EXCEPT !.provider = "no text"],
                                     ChatError(500, BindError))]
    /\ UNCHANGED <<tracks, nextId, env, playlists, running, req, obs, now, page, nucleusVars, parser>>

\* DELETE /api/chat, between chat requests
ClearChat ==
    /\ \A c \in ChatRequests : chat[c].pc = "idle"
    /\ events > 0
    /\ events' = events - 1
    /\ chat_messages # <<>>
    /\ chat_messages' = <<>>
    /\ UNCHANGED <<tracks, nextId, env, playlists, running, req, obs, now,
                   nextMsgId, chat, page, nucleusVars, parser>>

\* The Response the chat handler returned is sent.
DeliverChat(c) ==
    /\ chat[c].pc = "done"
    /\ chat' = [chat EXCEPT ![c] = IdleChat]
    /\ UNCHANGED <<tracks, nextId, env, playlists, running, req, obs, events, now,
                   chat_messages, nextMsgId, page, nucleusVars, parser>>

(* ------------------------- the page and the orbits --------------------- *)
\* useState<number | null>(null): no orbit selected
NoOrbit == 0

\* useState<Track[]>([]), useState<number | null>(null), useState('The Nucleus')
EmptyPage ==
    [tracks |-> <<>>, selectedOrbit |-> NoOrbit, nucleusName |-> "The Nucleus"]

Max(a, b) == IF a > b THEN a ELSE b

\* Math.ceil(a / n)
CeilAsFloor(a, n) == a \div n

Ceil(a, n) == (a + n - 1) \div n

\* The comparator of the sort: negative when a comes before b.
CompareAscending(a, b) == a.added_at - b.added_at

Compare(a, b) == b.added_at - a.added_at

\* [...tracks].sort(compare): the sort is stable
SortedTracksTiesReversed(trs) ==
    [k \in 1 .. Len(trs) |->
        trs[CHOOSE i \in DOMAIN trs :
                Cardinality({j \in DOMAIN trs :
                    \/ Compare(trs[j], trs[i]) < 0
                    \/ Compare(trs[j], trs[i]) = 0 /\ j > i}) = k - 1]]

SortedTracks(trs) ==
    [k \in 1 .. Len(trs) |->
        trs[CHOOSE i \in DOMAIN trs :
                Cardinality({j \in DOMAIN trs :
                    \/ Compare(trs[j], trs[i]) < 0
                    \/ Compare(trs[j], trs[i]) = 0 /\ j < i}) = k - 1]]

\* Math.min(Math.floor(index / Math.max(tracksPerOrbit, 1)), numOrbits - 1)
OrbitIndexFromOne(index, tracksPerOrbit, orbits) ==
    Min((index + 1) \div Max(tracksPerOrbit, 1), orbits - 1)

OrbitIndex(index, tracksPerOrbit, orbits) ==
    Min(index \div Max(tracksPerOrbit, 1), orbits - 1)

\* The elements of a sequence at the given positions, in their order.
Pick(seq, positions) ==
    [j \in 1 .. Cardinality(positions) |->
        seq[CHOOSE k \in positions :
                Cardinality({l \in positions : l < k}) = j - 1]]

\* orbits = Array(n).fill(null).map(() => []); each track is pushed to the
\* orbit of its index (orbits[0] is the first of the sequence)
TracksByOrbitSharedArray(sortedTracks, orbits) == [o \in 1 .. orbits |-> sortedTracks]

TracksByOrbit(sortedTracks, orbits) ==
    LET tracksPerOrbit == Ceil(Len(sortedTracks), orbits) IN
    [o \in 1 .. orbits |->
        Pick(sortedTracks,
             {k \in DOMAIN sortedTracks :
                 OrbitIndex(k - 1, tracksPerOrbit, orbits) = o - 1})]

\* The page's orbits and the visualization's, of the same track list.
PageTracksByOrbit(pg) == TracksByOrbit(SortedTracks(pg.tracks), PageOrbits)

VisualizationTracksByOrbit(pg) == TracksByOrbit(SortedTracks(pg.tracks), numOrbits)

\* selectedOrbit !== null ? tracksByOrbit[selectedOrbit - 1] || [] : sortedTracks
FilteredTracks(pg) ==
    IF pg.selectedOrbit # NoOrbit
    THEN IF pg.selectedOrbit \in 1 .. PageOrbits
         THEN PageTracksByOrbit(pg)[pg.selectedOrbit]
         ELSE <<>>
    ELSE SortedTracks(pg.tracks)

\* addTrack: the server inserts the track and the page puts it first:
\* setTracks(prev => [data.track, ...prev])
TrackAdded ==
    /\ nextId <= MaxPageTracks
    /\ page' = [page EXCEPT !.tracks = <<[id |-> nextId, added_at |-> now]>> \o @]
    /\ nextId' = nextId + 1
    /\ UNCHANGED <<tracks, env, playlists, running, req, obs, events, now, chatVars, nucleusVars, parser>>

\* deleteTrack: setTracks(prev => prev.filter(t => t.id !== id))
TrackDeleted(id) ==
    /\ \E k \in DOMAIN page.tracks : page.tracks[k].id = id
    /\ page' = [page EXCEPT !.tracks = SelectSeq(@, LAMBDA t : t.id # id)]
    /\ UNCHANGED <<tracks, nextId, env, playlists, running, req, obs, events, now,
                   chatVars, nucleusVars, parser>>

\* A click on an orbit ring of the visualization: onOrbitClick({ orbitIndex:
\* orbitIndex + 1, ... }), and handleOrbitClick selects it.
OrbitRingClicked(orbitIndex) ==
    /\ page.selectedOrbit # orbitIndex + 1
    /\ page' = [page EXCEPT !.selectedOrbit = orbitIndex + 1]
    /\ UNCHANGED <<tracks, nextId, env, playlists, running, req, obs, events, now,
                   chatVars, nucleusVars, parser>>

\* A click on empty space, or on Clear Filter: setSelectedOrbit(null)
FilterCleared ==
    /\ page.selectedOrbit # NoOrbit
    /\ page' = [page EXCEPT !.selectedOrbit = NoOrbit]
    /\ UNCHANGED <<tracks, nextId, env, playlists, running, req, obs, events, now,
                   chatVars, nucleusVars, parser>>

\* A click on an orbit button of the page:
\* setSelectedOrbit(selectedOrbit === orbit ? null : orbit)
OrbitButtonClicked(orbit) ==
    /\ page' = [page EXCEPT !.selectedOrbit = IF @ = orbit THEN NoOrbit ELSE orbit]
    /\ UNCHANGED <<tracks, nextId, env, playlists, running, req, obs, events, now,
                   chatVars, nucleusVars, parser>>

(* ----------------------- the nucleus_metadata table --------------------- *)
\* id INTEGER PRIMARY KEY CHECK (id = 1)
NucleusId == 1

\* name TEXT NOT NULL DEFAULT 'The Nucleus', which useState('The Nucleus') of
\* the page repeats
DefaultName == "The Nucleus"

\* INSERT OR IGNORE INTO nucleus_metadata (id, name) VALUES (1, 'The Nucleus'),
\* run when the module is loaded: dominant_emotion is NULL, updated_at DEFAULT
\* CURRENT_TIMESTAMP
InsertOrIgnoreNucleus(tbl, at) ==
    IF \E j \in DOMAIN tbl : tbl[j].id = NucleusId
    THEN tbl
    ELSE Append(tbl, [id |-> NucleusId, name |-> DefaultName,
                      dominant_emotion |-> Null, updated_at |-> at])

\* nucleusQueries.get.get(): SELECT * FROM nucleus_metadata WHERE id = 1
NucleusGet(tbl) == SelectSeq(tbl, LAMBDA row : row.id = NucleusId)

\* nucleusQueries.updateName.run(name): UPDATE nucleus_metadata SET name = ?,
\* updated_at = CURRENT_TIMESTAMP WHERE id = 1
UpdateNameAsInsert(tbl, name, at) ==
    Append(tbl, [id |-> Len(tbl) + 1, name |-> name, dominant_emotion |-> Null,
                 updated_at |-> at])

UpdateNameRun(tbl, name, at) ==
    [j \in DOMAIN tbl |->
        IF tbl[j].id = NucleusId
        THEN [tbl[j] EXCEPT !.name = name, !.updated_at = at]
        ELSE tbl[j]]

\* nucleusQueries.updateDominantEmotion.run(emotion): UPDATE nucleus_metadata
\* SET dominant_emotion = ?, updated_at = CURRENT_TIMESTAMP WHERE id = 1
UpdateDominantEmotionRun(tbl, emotion, at) ==
    [j \in DOMAIN tbl |->
        IF tbl[j].id = NucleusId
        THEN [tbl[j] EXCEPT !.dominant_emotion = emotion, !.updated_at = at]
        ELSE tbl[j]]

(* ------------------------ POST /api/nucleus/rename ---------------------- *)
NoNucleusResponse ==
    [status |-> 0, name |-> Undefined, dominantEmotion |-> Undefined,
     error |-> NoError]

NucleusError(status, msg) ==
    [NoNucleusResponse EXCEPT !.status = status, !.error = msg]

IdleNucleus ==
    [pc |-> "idle", trackCount |-> 0, topEmotions |-> <<>>,
     response |-> NoNucleusResponse]

\* The texts generateContent may answer with: a name, bare or in quotes and
\* padded with white space; the empty text; no text at all.
GeneratedText(name, quoted) == [name |-> name, quoted |-> quoted]

GeneratedTexts ==
    {GeneratedText("Velvet Dusk", FALSE), GeneratedText("Velvet Dusk", TRUE),
     GeneratedText("", TRUE), GeneratedText(Undefined, FALSE)}

\* result.text.trim() of no text throws a TypeError
NameThrows(text) == text.name = Undefined

\* result.text.trim().replace(/["']/g, ''): the padding and the quotes go
NameOf(text) == text.name

\* Object.entries(emotionCounts).sort((a, b) => b[1] - a[1]).slice(0, 3)
\*     .map(([emotion]) => emotion)
TopEmotions(trs) ==
    LET sorted == SortedEmotions(ForEach(trs, NoTotals).emotionCounts)
    IN [k \in 1 .. Min(3, Len(sorted)) |-> sorted[k].emotion]

\* The handler up to `await generateNucleusName(...)`: the key, the tracks,
\* their emotions counted and ranked.
StartRename ==
    /\ adder.pc = "renameNucleus"
    /\ nucleus.pc = "idle"
    /\ \E tie \in TieOrders :
          LET trs == TracksGetAll(tracks, tie) IN
          nucleus' =
              IF ~env.geminiApiKey
              THEN [nucleus EXCEPT !.pc = "done", !.response =
                       NucleusError(500, ErrorMsg("Gemini API key not configured"))]
              ELSE IF Len(trs) = 0
              THEN [nucleus EXCEPT !.pc = "done", !.response =
                       NucleusError(400, ErrorMsg("No tracks to analyze"))]
              ELSE [nucleus EXCEPT !.pc = "generateNucleusName",
                                   !.trackCount = Len(trs),
                                   !.topEmotions = TopEmotions(trs)]
    /\ UNCHANGED <<tracks, nextId, env, playlists, running, req, obs, events, now,
                   chatVars, page, nucleus_metadata, adder, parser>>

\* generateNucleusName returns or throws; the two updates and the 200, or the
\* catch and its 500.
RenameReturned ==
    /\ nucleus.pc = "generateNucleusName"
    /\ \E text \in GeneratedTexts :
          IF NameThrows(text)
          THEN /\ nucleus' = [nucleus EXCEPT !.pc = "done", !.response =
                    NucleusError(500, ErrorMsg("Cannot read properties of undefined"))]
               /\ UNCHANGED nucleus_metadata
          ELSE /\ nucleus_metadata' =
                    UpdateDominantEmotionRun(
                        UpdateNameRun(nucleus_metadata, NameOf(text), now),
                        nucleus.topEmotions[1], now)
               /\ nucleus' = [nucleus EXCEPT !.pc = "done", !.response =
                    [NoNucleusResponse EXCEPT !.status = 200,
                        !.name = NameOf(text),
                        !.dominantEmotion = nucleus.topEmotions[1]]]
    /\ UNCHANGED <<tracks, nextId, env, playlists, running, req, obs, events, now,
                   chatVars, page, adder, parser>>

(* ------------------------- the page: addTrack --------------------------- *)
\* What addTrack has done so far is an observation, not program state: the
\* successful additions, and the renames it asked for.
IdleAdder == [pc |-> "idle", added |-> 0, renames |-> 0]

\* The fields of a track the page's logic reads.
PageTrack(row) == [id |-> row.id, added_at |-> row.added_at]

PageTracks(rows) == [k \in DOMAIN rows |-> PageTrack(rows[k])]

\* The analyses of the tracks that are added.
AddedAnalyses == {a \in Analyses : Bindable(a.emotion)}

\* if (tracks.length > 0 && (tracks.length + 1) % 5 === 0)
SingleRenames(length) == length > 0 /\ (length + 1) % 5 = 0

\* const totalAdded = data.successCount; if (totalAdded >= 5)
PlaylistRenames(successCount) == successCount >= 5

AfterAdding(count, renames) ==
    [pc |-> IF renames THEN "renameNucleus" ELSE "idle",
     added |-> adder.added + count,
     renames |-> adder.renames + (IF renames THEN 1 ELSE 0)]

\* addTrack with the URL of a track, and POST /api/tracks/analyze answering
\* 201 with the row it inserted: the row is put first in the page's list, and
\* `tracks` in the condition is the list as it was when addTrack was called.
AddSingleTrack ==
    /\ adder.pc = "idle"
    /\ adder.added < MaxAdded
    /\ \E analysis \in AddedAnalyses :
          /\ tracks' = InsertRun(tracks, nextId, nextId, "text", analysis, now)
          /\ page' = [page EXCEPT !.tracks =
                         <<PageTrack(GetById(tracks', nextId))>> \o @]
    /\ nextId' = nextId + 1
    /\ adder' = AfterAdding(1, SingleRenames(Len(page.tracks)))
    /\ UNCHANGED <<env, playlists, running, req, obs, events, now, chatVars,
                   nucleus_metadata, nucleus, parser>>

\* A run of ids from the next one on, each inserted with the same analysis.
RECURSIVE InsertRows(_, _, _, _, _)
InsertRows(tbl, id, count, analysis, at) ==
    IF count = 0 THEN tbl
    ELSE InsertRows(InsertRun(tbl, id, id, "text", analysis, at), id + 1,
                    count - 1, analysis, at)

\* addTrack with the URL of a playlist, and POST /api/tracks/analyze-playlist
\* answering 200 with successCount tracks added: loadTracks, then the rename.
AddPlaylist(successCount) ==
    /\ adder.pc = "idle"
    /\ adder.added + successCount <= MaxAdded
    /\ \E analysis \in AddedAnalyses :
          tracks' = InsertRows(tracks, nextId, successCount, analysis, now)
    /\ nextId' = nextId + successCount
    /\ \E tie \in TieOrders :
          page' = [page EXCEPT !.tracks = PageTracks(TracksGetAll(tracks', tie))]
    /\ adder' = AfterAdding(successCount, PlaylistRenames(successCount))
    /\ UNCHANGED <<env, playlists, running, req, obs, events, now, chatVars,
                   nucleus_metadata, nucleus, parser>>

\* deleteTrack(id): DELETE /api/tracks, then the track leaves the page's list
DeleteFromPage(id) ==
    /\ \E k \in DOMAIN page.tracks : page.tracks[k].id = id
    /\ events > 0
    /\ events' = events - 1
    /\ tracks' = DeleteRun(tracks, id)
    /\ page' = [page EXCEPT !.tracks = SelectSeq(@, LAMBDA t : t.id # id)]
    /\ UNCHANGED <<nextId, env, playlists, running, req, obs, now, chatVars,
                   nucleusVars, parser>>

\* renameNucleus once the response is there: if (data.name)
\* setNucleusName(data.name), and addTrack is over.
Truthy(value) == value # Undefined /\ value # ""

RenameDelivered ==
    /\ adder.pc = "renameNucleus"
    /\ nucleus.pc = "done"
    /\ page' = [page EXCEPT !.nucleusName =
                   IF Truthy(nucleus.response.name) THEN nucleus.response.name
                   ELSE @]
    /\ nucleus' = IdleNucleus
    /\ adder' = [adder EXCEPT !.pc = "idle"]
    /\ UNCHANGED <<tracks, nextId, env, playlists, running, req, obs, events, now,
                   chatVars, nucleus_metadata, parser>>

(* --------------------- parsing the analysis response -------------------- *)
\* A response text, as the pieces that matter to the parse: the two braces, a
\* member with a scalar value ("emotion": "joy"), a key and its colon before a
\* nested object ("detail":), and anything else (prose, a code fence).
TextPieces == {"{", "}", "member", "key:", "prose"}

\* The position of the first piece of a kind, and of the last; 0 when there
\* is none.
FirstOf(text, piece) ==
    IF \E i \in DOMAIN text : text[i] = piece
    THEN CHOOSE i \in DOMAIN text :
             text[i] = piece /\ \A j \in 1 .. i - 1 : text[j] # piece
    ELSE 0

LastOf(text, piece) ==
    IF \E i \in DOMAIN text : text[i] = piece
    THEN CHOOSE i \in DOMAIN text :
             text[i] = piece /\ \A j \in i + 1 .. Len(text) : text[j] # piece
    ELSE 0

\* responseText.match(/\{[\s\S]*\}/): from the first "{", and the star being
\* greedy, to the last "}" of the text; null (no piece at all) when no "}"
\* follows a "{".
Matches(text) ==
    /\ FirstOf(text, "{") # 0
    /\ LastOf(text, "}") > FirstOf(text, "{")

JsonMatch(text) ==
    IF Matches(text)
    THEN SubSeq(text, FirstOf(text, "{"), LastOf(text, "}"))
    ELSE <<>>

\* JSON.parse of an object: the position of the "}" that ends the object
\* beginning at position i, 0 when what begins there is no object.
RECURSIVE ObjectEnd(_, _), MembersEnd(_, _)
ObjectEnd(text, i) ==
    IF i \in DOMAIN text /\ text[i] = "{" THEN MembersEnd(text, i + 1) ELSE 0

MembersEnd(text, i) ==
    IF i \notin DOMAIN text THEN 0
    ELSE IF text[i] = "}" THEN i
    ELSE IF text[i] = "member" THEN MembersEnd(text, i + 1)
    ELSE IF text[i] = "key:"
    THEN IF ObjectEnd(text, i + 1) = 0 THEN 0
         ELSE MembersEnd(text, ObjectEnd(text, i + 1) + 1)
    ELSE 0

\* JSON.parse(text) returns: the whole text is one object
JsonParses(text) == text # <<>> /\ ObjectEnd(text, 1) = Len(text)

\* The object JSON.parse returns, written out again.
JsonParse(text) == SubSeq(text, 1, ObjectEnd(text, 1))

IdleParser ==
    [responseText |-> <<>>, fn |-> "none", pc |-> "idle", outcome |-> "none",
     analysis |-> <<>>]

\* The three functions that parse a response the same way.
ParsingFunctions == {"analyzeAudioFile", "analyzeSpotifyEmbed", "analyzeLyrics"}

\* const jsonMatch = responseText.match(...); if (!jsonMatch) throw new
\* Error('Failed to parse Gemini response as JSON'); return
\* JSON.parse(jsonMatch[0]), which throws a SyntaxError
ParseResponse(fn) ==
    /\ parser.pc = "idle"
    /\ parser' =
          IF ~Matches(parser.responseText)
          THEN [parser EXCEPT !.fn = fn, !.pc = "thrown",
                   !.outcome = "Failed to parse Gemini response as JSON"]
          ELSE IF ~JsonParses(JsonMatch(parser.responseText))
          THEN [parser EXCEPT !.fn = fn, !.pc = "thrown",
                   !.outcome = "SyntaxError"]
          ELSE [parser EXCEPT !.fn = fn, !.pc = "returned",
                   !.outcome = "analysis",
                   !.analysis = JsonParse(JsonMatch(parser.responseText))]
    /\ UNCHANGED <<tracks, nextId, env, playlists, running, req, obs, events, now,
                   chatVars, page, nucleusVars>>

(* --------------------------- specifications ---------------------------- *)
\* The playlists of Spec: two tracks alternating (the two ids are
\* interchangeable, so from the first), or one track repeated, cut at every
\* length up to MaxPlaylistLen.
Alternating(first, n) == [j \in 1 .. n |-> IF j % 2 = 1 THEN first ELSE 3 - first]

Repeated(sid, n) == [j \in 1 .. n |-> sid]

ShortPlaylists ==
    UNION { {Alternating(1, n), Repeated(1, n)} :
            n \in 0 .. MaxPlaylistLen }

InitRequests ==
    /\ running = None
    /\ req = [r \in Requests |-> IdleRequest]
    /\ obs = [r \in Requests |-> NoObservation]

\* The database module has been loaded; the page has added nothing, and no
\* response text is being parsed.
InitIdle ==
    /\ nucleus_metadata = InsertOrIgnoreNucleus(<<>>, 0)
    /\ nucleus = IdleNucleus
    /\ adder = IdleAdder
    /\ parser = IdleParser

\* No chat yet, and the page before it has loaded anything.
InitOthers ==
    /\ now = 0
    /\ chat_messages = <<>>
    /\ nextMsgId = 1
    /\ chat = [c \in ChatRequests |-> IdleChat]
    /\ page = EmptyPage

\* An empty collection, any configuration of credentials, short playlists.
Init ==
    /\ tracks = <<>>
    /\ nextId = 1
    /\ env \in [spotify : BOOLEAN, geminiApiKeys : 0 .. Min(MaxKeys, MaxEnvKeys),
                geminiApiKey : {TRUE}, geniusToken : BOOLEAN]
    /\ playlists = ShortPlaylists
    /\ InitRequests
    /\ InitIdle
    /\ InitOthers
    /\ events = MaxEvents

Next ==
    \/ \E r \in Requests : Batch(r)
    \/ \E r \in Requests : Single(r)
    \/ \E r \in Requests : Deliver(r)
    \/ \E id \in 1 .. nextId - 1 : DeleteTrack(id)

Spec == Init /\ [][Next]_vars

\* One request at a time, of any of the three enrichment handlers, with
\* deletions between them and the clock running.
NextTracks ==
    \/ Single("r1")
    \/ Audio("r1")
    \/ Batch("r1")
    \/ Deliver("r1")
    \/ \E id \in 1 .. nextId - 1 : DeleteTrack(id)
    \/ Tick

SpecTracks == Init /\ [][NextTracks]_vars

\* The chat history a database file may hold: RecentLimit messages of one
\* conversation, a message and its reply every second.
StoredHistory(channel) ==
    [k \in 1 .. RecentLimit |->
        [id |-> k, role |-> IF k % 2 = 1 THEN "user" ELSE "assistant",
         content |-> IF k % 2 = 1 THEN Message(k) ELSE Reply(k - 1),
         timestamp |-> (k + 1) \div 2, emotion |-> channel]]

\* The chat handlers, one chat request at a time, over a collection that is empty
\* or holds one track, and a chat table that is empty or holds a history.
InitChat ==
    /\ \/ tracks = <<>> /\ nextId = 1
       \/ tracks = InsertRun(<<>>, 1, 1, "text", Analysis("joy", 80, 60), 0) /\ nextId = 2
    /\ env \in [spotify : {TRUE}, geminiApiKeys : 0 .. Min(MaxKeys, MaxEnvKeys),
                geminiApiKey : BOOLEAN, geniusToken : {TRUE}]
    /\ playlists = ShortPlaylists
    /\ InitRequests
    /\ InitIdle
    /\ page = EmptyPage
    /\ chat = [c \in ChatRequests |-> IdleChat]
    /\ \/ chat_messages = <<>> /\ nextMsgId = 1 /\ now = 0
       \/ /\ \E channel \in {Null} \cup ChatChannels :
                chat_messages = StoredHistory(channel)
          /\ nextMsgId = RecentLimit + 1
          /\ now = (RecentLimit + 1) \div 2
    /\ events = MaxChatEvents

NextChat ==
    \/ StartChat("c1")
    \/ ChatOperationReturned("c1")
    \/ \E hasMessage \in BOOLEAN, emotion \in ChatChannels :
          StartEmotionChat("c1", hasMessage, emotion)
    \/ EmotionChatReturned("c1")
    \/ ClearChat
    \/ DeliverChat("c1")
    \/ Tick

SpecChat == InitChat /\ [][NextChat]_vars

\* Global chat requests, two of them in flight together (the second in the
\* second slot), over the collections and chat tables of SpecChat.
NextChats ==
    \/ StartChat("c1")
    \/ chat["c1"].pc # "idle" /\ StartChat("c2")
    \/ \E c \in ChatRequests : ChatOperationReturned(c)
    \/ \E c \in ChatRequests : DeliverChat(c)
    \/ ClearChat
    \/ Tick

SpecChats == InitChat /\ [][NextChats]_vars

\* The analyses of the tracks a database file holds from earlier runs.
StoredAnalyses ==
    {Analysis("joy", 80, 60), Analysis("sadness", 20, NullReal),
     Analysis("calm", NullReal, NullReal)}

\* The collections of a database file: up to MaxStoredTracks rows, inserted in
\* the same second, of tracks other than those submitted.
StoredCollections ==
    UNION { { [k \in 1 .. n |->
                 [id |-> k, spotify_id |-> Cardinality(SpotifyIds) + k,
                  lyrics |-> "text", emotion |-> f[k].emotion,
                  valence |-> f[k].valence, energy |-> f[k].energy,
                  added_at |-> 0]] : f \in [1 .. n -> StoredAnalyses] } :
            n \in 0 .. MaxStoredTracks }

\* The global chat over a stored collection that single-track submissions and
\* deletions change, one request at a time.
InitContext ==
    /\ tracks \in StoredCollections
    /\ nextId = Len(tracks) + 1
    /\ env \in [spotify : {TRUE}, geminiApiKeys : {1}, geminiApiKey : {TRUE},
                geniusToken : {TRUE}]
    /\ playlists = ShortPlaylists
    /\ InitRequests
    /\ InitIdle
    /\ InitOthers
    /\ events = MaxEvents

NextContext ==
    \/ Single("r1")
    \/ Deliver("r1")
    \/ \E id \in 1 .. nextId - 1 : DeleteTrack(id)
    \/ StartChat("c1")
    \/ ChatOperationReturned("c1")
    \/ DeliverChat("c1")
    \/ Tick

SpecContext == InitContext /\ [][NextContext]_vars

\* The page alone: tracks are added and deleted as the seconds pass, and
\* orbits are selected.
InitOrbit ==
    /\ tracks = <<>>
    /\ nextId = 1
    /\ env \in [spotify : {TRUE}, geminiApiKeys : {1}, geminiApiKey : {TRUE},
                geniusToken : {TRUE}]
    /\ playlists = ShortPlaylists
    /\ InitRequests
    /\ InitIdle
    /\ InitOthers
    /\ events = MaxSeconds

NextOrbit ==
    \/ TrackAdded
    \/ \E id \in 1 .. nextId - 1 : TrackDeleted(id)
    \/ \E orbitIndex \in 0 .. numOrbits - 1 : OrbitRingClicked(orbitIndex)
    \/ \E orbit \in 1 .. PageOrbits : OrbitButtonClicked(orbit)
    \/ FilterCleared
    \/ Tick

SpecOrbit == InitOrbit /\ [][NextOrbit]_vars

\* The lists loadTracks may give the page, as GET /api/tracks returns them
\* (trackQueries.getAll): up to MaxLoadedTracks tracks, a new one added every
\* second, two every second, or all in the same second.
LoadedLists ==
    { OrderByAddedAtDesc({[id |-> k, added_at |-> (k - 1) \div every] : k \in 1 .. n},
                         tie) :
        n \in 0 .. MaxLoadedTracks, every \in {1, 2, MaxLoadedTracks + 1},
        tie \in TieOrders }

\* The page once it has loaded its tracks: tracks are deleted and orbits are
\* selected.
InitLoaded ==
    /\ tracks = <<>>
    /\ env \in [spotify : {TRUE}, geminiApiKeys : {1}, geminiApiKey : {TRUE},
                geniusToken : {TRUE}]
    /\ playlists = ShortPlaylists
    /\ InitRequests
    /\ InitIdle
    /\ now = 0
    /\ chat_messages = <<>>
    /\ nextMsgId = 1
    /\ chat = [c \in ChatRequests |-> IdleChat]
    /\ \E list \in LoadedLists :
          /\ page = [EmptyPage EXCEPT !.tracks = list]
          /\ nextId = Len(list) + 1
    /\ events = 0

NextLoaded ==
    \/ \E id \in 1 .. nextId - 1 : TrackDeleted(id)
    \/ \E orbitIndex \in 0 .. numOrbits - 1 : OrbitRingClicked(orbitIndex)
    \/ \E orbit \in 1 .. PageOrbits : OrbitButtonClicked(orbit)
    \/ FilterCleared

SpecLoaded == InitLoaded /\ [][NextLoaded]_vars

\* The page adds tracks and playlists to an empty collection and deletes
\* tracks, and the nucleus is renamed; the database is new, or holds the
\* nucleus as an earlier run renamed it.
StoredNucleus ==
    {<<>>,
     <<[id |-> NucleusId, name |-> "Quiet Ember", dominant_emotion |-> "joy",
        updated_at |-> 0]>>}

InitNucleus ==
    /\ tracks = <<>>
    /\ nextId = 1
    /\ env \in [spotify : {TRUE}, geminiApiKeys : {1}, geminiApiKey : BOOLEAN,
                geniusToken : {TRUE}]
    /\ playlists = ShortPlaylists
    /\ InitRequests
    /\ InitOthers
    /\ \E stored \in StoredNucleus :
          nucleus_metadata = InsertOrIgnoreNucleus(stored, 0)
    /\ nucleus = IdleNucleus
    /\ adder = IdleAdder
    /\ parser = IdleParser
    /\ events = MaxNucleusEvents

NextNucleus ==
    \/ AddSingleTrack
    \/ \E successCount \in 1 .. MaxAdded : AddPlaylist(successCount)
    \/ \E id \in 1 .. nextId - 1 : DeleteFromPage(id)
    \/ StartRename
    \/ RenameReturned
    \/ RenameDelivered

SpecNucleus == InitNucleus /\ [][NextNucleus]_vars

\* A response text of up to MaxTextLen pieces is parsed by one of the three
\* functions.
RECURSIVE TextsOfLen(_)
TextsOfLen(n) ==
    IF n = 0 THEN {<<>>}
    ELSE {Append(text, piece) : text \in TextsOfLen(n - 1), piece \in TextPieces}

ResponseTexts == UNION {TextsOfLen(n) : n \in 0 .. MaxTextLen}

InitParse ==
    /\ tracks = <<>>
    /\ nextId = 1
    /\ env \in [spotify : {TRUE}, geminiApiKeys : {1}, geminiApiKey : {TRUE},
                geniusToken : {TRUE}]
    /\ playlists = ShortPlaylists
    /\ InitRequests
    /\ InitOthers
    /\ nucleus_metadata = InsertOrIgnoreNucleus(<<>>, 0)
    /\ nucleus = IdleNucleus
    /\ adder = IdleAdder
    /\ \E text \in ResponseTexts : parser = [IdleParser EXCEPT !.responseText = text]
    /\ events = 0

NextParse == \E fn \in ParsingFunctions : ParseResponse(fn)

SpecParse == InitParse /\ [][NextParse]_vars

\* One batch over a playlist longer than the target, alone on the server; the
\* collection may already hold one of the playlist's tracks.
LongPlaylist == [j \in 1 .. TARGET_SUCCESS + ExtraCandidates |-> j]

InitBatch ==
    /\ \/ tracks = <<>> /\ nextId = 1
       \/ tracks = InsertRun(<<>>, 1, 1, "text", Analysis("joy", 80, 60), 0) /\ nextId = 2
    /\ env \in [spotify : {TRUE}, geminiApiKeys : {1}, geminiApiKey : {TRUE},
                geniusToken : BOOLEAN]
    /\ playlists = {LongPlaylist}
    /\ InitRequests
    /\ InitIdle
    /\ InitOthers
    /\ events = 1 + MaxBatchFaults

NextBatch == Batch("r1") \/ Deliver("r1")

SpecBatch == InitBatch /\ [][NextBatch]_vars

(* ------------------------------ properties ----------------------------- *)
Range(seq) == {seq[j] : j \in DOMAIN seq}

InBucket(bucket, cand) == \E e \in Range(bucket) : e.cand = cand

Entries(bucket, cand) == Cardinality({j \in DOMAIN bucket : bucket[j].cand = cand})

IsBatch(r) == req[r].kind = "playlist"

IsSingle(r) == req[r].kind = "single"

\* No two rows of the tracks table share a spotify_id.
UniqueSpotifyIds ==
    \A a, b \in DOMAIN tracks :
        tracks[a].spotify_id = tracks[b].spotify_id => a = b

\* A candidate whose duplicate lookup found a row inserted nothing and is
\* Skipped: the skipped bucket with 'Already in collection', or 409 'Track
\* already exists' with the existing row.
DuplicatesSkipped ==
    \A r \in Requests : \A c \in obs[r].dupSeen :
        /\ obs[r].inserted[c + 1] = 0
        /\ IsBatch(r) =>
              /\ \E e \in Range(req[r].results.skipped) :
                    e.cand = c /\ e.reason = ErrorMsg("Already in collection")
              /\ ~InBucket(req[r].results.success, c)
              /\ ~InBucket(req[r].results.failed, c)
        /\ IsSingle(r) =>
              /\ req[r].pc = "done"
              /\ req[r].response.status = 409
              /\ req[r].response.error = ErrorMsg("Track already exists")
              /\ req[r].response.track.spotify_id = req[r].trackId

\* C1: after any sequence of single-track submissions, playlist batches and
\* deletions no two Track rows share a spotify_id, and a submission whose track
\* is already in the collection inserts no row and resolves to Skipped.
C1_UniqueAndDuplicatesSkipped == UniqueSpotifyIds /\ DuplicatesSkipped

\* C1 witness: a batch has skipped a candidate, a single-track submission has
\* been answered 409, and a row has been deleted.
C1_Witness ==
    /\ nextId > Len(tracks) + 1
    /\ \E r \in Requests : IsBatch(r) /\ obs[r].dupSeen # {}
    /\ \E r \in Requests : IsSingle(r) /\ obs[r].dupSeen # {}

\* C2 (as claimed): a run whose insert the table rejected, because another run
\* for the same track inserted first, ends Skipped, not failed and not a
\* server error, and the table holds one row for the track.
C2_RejectedInsertIsSkipped ==
    /\ UniqueSpotifyIds
    /\ \A r \in Requests : \A c \in obs[r].rejected :
          /\ SpotifyIdTaken(tracks, req[r].playlistTracks[c + 1])
                \/ nextId > Len(tracks) + 1
          /\ IsBatch(r) =>
                /\ InBucket(req[r].results.skipped, c)
                /\ ~InBucket(req[r].results.failed, c)
          /\ IsSingle(r) => req[r].response.status = 409

\* C3: a candidate of the batch inserts at most one row, however many keys
\* the rotation went through, and it inserts one exactly if it is in the
\* success bucket; failed and skipped candidates insert nothing.
C3_InsertIffSuccess ==
    \A r \in Requests : IsBatch(r) =>
        \A c \in DOMAIN obs[r].inserted :
            /\ obs[r].inserted[c] <= 1
            /\ obs[r].inserted[c] = 1 <=> InBucket(req[r].results.success, c - 1)
            /\ InBucket(req[r].results.failed, c - 1) => obs[r].inserted[c] = 0
            /\ InBucket(req[r].results.skipped, c - 1) => obs[r].inserted[c] = 0

\* C3 witness: a candidate is in the success bucket after its rotation failed
\* on a key, beside a candidate that failed.
C3_Witness ==
    \E r \in Requests :
        /\ IsBatch(r)
        /\ req[r].pc = "loop"
        /\ obs[r].rotation.status = "returned"
        /\ obs[r].rotation.thrown # <<>>
        /\ InBucket(req[r].results.success, req[r].i - 1)
        /\ req[r].results.failed # <<>>

FirstKeys(n) == [j \in 1 .. n |-> j - 1]

\* C4: a rotation over k >= 1 keys whose operation throws for every key has
\* invoked the operation k times, once per key in list order, and fails with
\* an error naming k and the message of the last error thrown ('Unknown
\* error' when what was thrown is no Error).
C4_ExhaustionAfterKAttempts ==
    \A r \in Requests :
        obs[r].rotation.status = "threw" =>
            LET k == env.geminiApiKeys
                rot == obs[r].rotation
            IN /\ k >= 1
               /\ rot.calls = FirstKeys(k)
               /\ Len(rot.thrown) = k
               /\ rot.error.k = k
               /\ rot.error.last = IF rot.thrown[k].isError
                                   THEN rot.thrown[k].message
                                   ELSE "Unknown error"
               /\ rot.error.text = "All Gemini API keys failed. Last error:"

\* C4 witness: a pool of two or more keys is exhausted, the last error thrown
\* differing from the first.
C4_Witness ==
    \E r \in Requests :
        /\ obs[r].rotation.status = "threw"
        /\ env.geminiApiKeys >= 2
        /\ obs[r].rotation.thrown[1] # obs[r].rotation.thrown[env.geminiApiKeys]

\* C5: every rotation call tries the keys in list order from index 0, whatever
\* the earlier calls did; when key i is the first to succeed, i + 1 operations
\* were attempted, i of them failed, and key i's result is returned.
C5_FirstSuccessStops ==
    \A r \in Requests :
        LET rot == obs[r].rotation IN
        /\ rot.calls = FirstKeys(Len(rot.calls))
        /\ rot.status = "returned" =>
              /\ Len(rot.calls) = rot.resultKey + 1
              /\ Len(rot.thrown) = rot.resultKey
        /\ rot.status = "running" => Len(rot.calls) - Len(rot.thrown) \in {0, 1}

\* C5 witness: the rotation of a later candidate returns the second key's
\* result, after an earlier candidate's rotation call.
C5_Witness ==
    \E r \in Requests :
        /\ IsBatch(r)
        /\ req[r].i >= 1
        /\ obs[r].rotation.status = "returned"
        /\ obs[r].rotation.resultKey = 1
        /\ InBucket(req[r].results.success, req[r].i - 1)

\* C6: a batch has at most one provider call outstanding; it is for the
\* current candidate, every earlier candidate is finished, and a call with key
\* j is outstanding only when the attempts with keys 0 .. j-1 have failed.
C6_OneCallOutstanding ==
    \A r \in Requests : IsBatch(r) =>
        /\ Cardinality(req[r].calls) <= 1
        /\ \A call \in req[r].calls :
              /\ running # r
              /\ call.api \in {"genius", "gemini"} =>
                    /\ call.cand = req[r].i
                    /\ obs[r].attempted = 0 .. req[r].i
                    /\ \A c \in 0 .. req[r].i - 1 :
                          Entries(req[r].results.success, c)
                          + Entries(req[r].results.failed, c)
                          + Entries(req[r].results.skipped, c) = 1
              /\ call.api = "gemini" =>
                    /\ call.key = req[r].keyIdx
                    /\ Len(obs[r].rotation.thrown) = call.key
                    /\ obs[r].rotation.calls = FirstKeys(call.key + 1)

\* C6 witness: the second key's attempt for the second candidate is outstanding.
C6_Witness ==
    \E r \in Requests :
        /\ IsBatch(r)
        /\ req[r].calls = {Call("gemini", 1, 1)}

Attempted(r, c) == c \in obs[r].attempted

InAnyBucket(r, c) ==
    \/ InBucket(req[r].results.success, c)
    \/ InBucket(req[r].results.failed, c)
    \/ InBucket(req[r].results.skipped, c)

FirstSucceeded(r, n) == \A c \in 0 .. n - 1 : InBucket(req[r].results.success, c)

\* C7: the success bucket never holds more than TARGET_SUCCESS tracks; once it
\* holds that many no further candidate is attempted; and when the first
\* TARGET_SUCCESS candidates all succeed, exactly those are attempted and no
\* later candidate is in any bucket.
C7_StopsAtTarget ==
    \A r \in Requests : IsBatch(r) =>
        /\ Len(req[r].results.success) <= TARGET_SUCCESS
        /\ Len(req[r].results.success) = TARGET_SUCCESS =>
              \A c \in DOMAIN req[r].playlistTracks :
                  c - 1 >= req[r].i => ~Attempted(r, c - 1) /\ ~InAnyBucket(r, c - 1)
        /\ FirstSucceeded(r, TARGET_SUCCESS) =>
              /\ obs[r].attempted = 0 .. TARGET_SUCCESS - 1
              /\ \A c \in DOMAIN req[r].playlistTracks :
                    c - 1 >= TARGET_SUCCESS => ~InAnyBucket(r, c - 1)

\* C7 witness: a batch over a playlist longer than the target has answered
\* after its first TARGET_SUCCESS candidates succeeded.
C7_Witness ==
    \E r \in Requests :
        /\ IsBatch(r)
        /\ req[r].pc = "done"
        /\ req[r].response.status = 200
        /\ FirstSucceeded(r, TARGET_SUCCESS)
        /\ Len(req[r].playlistTracks) > TARGET_SUCCESS

BucketCount(r, c) ==
    Entries(req[r].results.success, c) + Entries(req[r].results.failed, c)
    + Entries(req[r].results.skipped, c)

\* C8: every candidate the batch attempts ends in exactly one bucket, a
\* candidate's failure at any stage does not end the batch (the next candidate
\* is attempted), and the batch answers 200 with the buckets.
C8_EveryCandidateBucketed ==
    \A r \in Requests : IsBatch(r) /\ req[r].pc # "idle" /\ ~obs[r].fetchFailed =>
        /\ req[r].pc = "done" =>
              \/ req[r].response.status = 200
              \/ /\ req[r].response.status \in {400, 500}
                 /\ req[r].response.error \in
                       {ErrorMsg("Missing API credentials"),
                        ErrorMsg("Invalid Spotify playlist URL")}
        /\ \A c \in 0 .. Len(req[r].playlistTracks) - 1 :
              /\ c < req[r].i => Attempted(r, c) /\ BucketCount(r, c) = 1
              /\ c >= req[r].i => BucketCount(r, c) = 0
              /\ c > req[r].i => ~Attempted(r, c)
        /\ req[r].pc = "done" /\ req[r].response.status = 200 =>
              /\ req[r].response.results = req[r].results
              /\ \/ req[r].i = Len(req[r].playlistTracks)
                 \/ Len(req[r].results.success) >= TARGET_SUCCESS

\* C8 witness: a batch has answered 200 with a candidate whose insert was
\* rejected in the failed bucket and the candidate after it in a bucket.
C8_Witness ==
    \E r \in Requests :
        /\ IsBatch(r)
        /\ req[r].pc = "done"
        /\ req[r].response.status = 200
        /\ \E e \in Range(req[r].results.failed) :
              /\ e.reason = UniqueViolation
              /\ BucketCount(r, e.cand + 1) = 1

\* C9 (as claimed): the 'total processed' count of the batch's answer is the
\* sum of the sizes of the three buckets.
C9_TotalProcessedIsBucketSum ==
    \A r \in Requests :
        IsBatch(r) /\ req[r].pc = "done" /\ req[r].response.status = 200 =>
            req[r].response.totalProcessed =
                Len(req[r].response.results.success)
                + Len(req[r].response.results.failed)
                + Len(req[r].response.results.skipped)

\* C10: when the playlist expansion fails the batch fails as a whole: 500, no
\* candidate attempted, no lyrics or analysis call, no row inserted, no buckets.
C10_ExpansionFailureIsAtomic ==
    \A r \in Requests :
        obs[r].fetchFailed =>
            /\ req[r].pc = "done"
            /\ req[r].response.status = 500
            /\ req[r].response.results = EmptyResults
            /\ req[r].results = EmptyResults
            /\ obs[r].attempted = {}
            /\ obs[r].providerCalls = 0
            /\ obs[r].inserted = <<>>

\* C10 witness: a batch has failed at the playlist expansion.
C10_Witness ==
    \E r \in Requests : IsBatch(r) /\ obs[r].fetchFailed /\ req[r].pc = "done"

IsAudio(r) == req[r].kind = "audio"

\* C11 (as claimed): in every enrichment entry point a candidate left without
\* lyrics, by a lookup that returned null or for want of a lyrics credential,
\* has no analysis call made for it and inserts no row, so that every row of
\* the tracks table has lyrics.
C11_NoLyricsNeverEnriched ==
    /\ \A j \in DOMAIN tracks : tracks[j].lyrics # Null
    /\ \A r \in Requests : \A c \in obs[r].noLyrics :
          /\ c \notin obs[r].analysed
          /\ obs[r].inserted[c + 1] = 0

\* C12 (as claimed): a candidate whose analysis names no emotion of the eight
\* labels fails and inserts no row, so that every row of the tracks table has
\* an emotion of the eight.
C12_EmotionInEnum ==
    /\ \A j \in DOMAIN tracks : tracks[j].emotion \in Emotions
    /\ \A r \in Requests : \A c \in obs[r].offEnum :
          /\ obs[r].inserted[c + 1] = 0
          /\ IsBatch(r) /\ req[r].i > c => InBucket(req[r].results.failed, c)
          /\ ~IsBatch(r) /\ req[r].pc = "done" => req[r].response.status # 201

\* Every row of the table that is still there after the step is as it was.
RowsFrozen ==
    \A j \in DOMAIN tracks :
        (\E k \in DOMAIN tracks' : tracks'[k].id = tracks[j].id) =>
            GetById(tracks', tracks[j].id) = tracks[j]

\* A step in which a request finds its track in the table leaves the table
\* alone, and a single-track request answers with the row as it is.
DuplicateLeavesRow ==
    \A r \in Requests :
        obs'[r].dupSeen # {} /\ obs[r].dupSeen # obs'[r].dupSeen =>
            /\ tracks' = tracks
            /\ ~IsBatch(r)' =>
                  /\ req'[r].response.track \in Range(tracks)
                  /\ req'[r].response.track.spotify_id = req'[r].trackId

\* C13: no step modifies a row of the tracks table that it does not delete; a
\* duplicate submission leaves the table unchanged, and the record a duplicate
\* single-track submission is answered with is the row already there.
C13_RowsNeverModified == [][RowsFrozen /\ DuplicateLeavesRow]_vars

\* C13 witness: a duplicate single-track submission has been answered 409
\* with a row added before the clock last advanced, another row beside it.
C13_Witness ==
    \E r \in Requests :
        /\ ~IsBatch(r)
        /\ req[r].pc = "done"
        /\ req[r].response.status = 409
        /\ req[r].response.track \in Range(tracks)
        /\ req[r].response.track.added_at < now
        /\ Len(tracks) >= 2

\* The rows of a conversation in the order they were persisted: an emotion
\* channel's, or with Null the global chat's.
Conversation(channel) == SelectSeq(chat_messages, LAMBDA row : row.emotion = channel)

\* C14 (as claimed): a chat request whose provider call answered with text has
\* persisted two rows, the user's message and then the reply, and is answered
\* 200; one whose provider call failed or answered without text has persisted
\* nothing, neither a reply nor the user's message, and is answered an error.
C14_TurnPersistedWhole ==
    chat["c1"].pc = "done" /\ chat["c1"].provider # "none" =>
        LET n == Len(chat["c1"].before) IN
        IF chat["c1"].provider = "text"
        THEN /\ chat["c1"].response.status = 200
             /\ Len(chat_messages) = n + 2
             /\ SubSeq(chat_messages, 1, n) = chat["c1"].before
             /\ chat_messages[n + 1].role = "user"
             /\ chat_messages[n + 1].content = chat["c1"].message
             /\ chat_messages[n + 2].role = "assistant"
             /\ chat_messages[n + 2].content = chat["c1"].response.response
             /\ chat_messages[n + 1].emotion = chat["c1"].emotion
             /\ chat_messages[n + 2].emotion = chat["c1"].emotion
        ELSE /\ chat["c1"].response.status >= 400
             /\ chat_messages = chat["c1"].before

\* C15 (as claimed): once a chat request has read its recent messages, the
\* history and the recent messages of an emotion channel hold the messages
\* tagged with the emotion and no others, and the history and the recent
\* messages of the global chat hold no message tagged with an emotion.
C15_ChannelsSeparable ==
    chat["c1"].pc # "idle" =>
        \A tie \in TieOrders :
            /\ \A e \in ChatChannels :
                  Range(ChatGetByEmotion(chat_messages, e, tie)) =
                      {row \in Range(chat_messages) : row.emotion = e}
            /\ \A row \in Range(ChatGetAll(chat_messages, tie)) : row.emotion = Null
            /\ \A row \in Range(chat["c1"].window) :
                  row.emotion = IF chat["c1"].kind = "emotion" THEN chat["c1"].emotion ELSE Null

\* C16 (as claimed): the turns a chat request submits are the last
\* min(RecentLimit, n) persisted messages of its conversation, oldest first,
\* with the stored role user as 'user' and assistant as 'model', and then the
\* new message as a 'user' turn (after the prompt turn of the global chat).
C16_PriorTurnsAreLastTen ==
    chat["c1"].pc \in {"chatWithRotation", "generateContent"} =>
        LET conv == Conversation(chat["c1"].emotion)
            n == Len(conv)
            last == SubSeq(conv, n - Min(RecentLimit, n) + 1, n)
            prior == [k \in 1 .. Len(last) |->
                         [role |-> IF last[k].role = "user" THEN "user" ELSE "model",
                          text |-> last[k].content]]
            turns == IF chat["c1"].kind = "global" THEN Tail(chat["c1"].contents)
                     ELSE chat["c1"].contents
        IN turns = prior \o <<[role |-> "user", text |-> chat["c1"].message]>>

\* The orbit assignments of the page's track list, for the page and for the
\* visualization.
Assignments == {PageTracksByOrbit(page), VisualizationTracksByOrbit(page)}

\* C17: in the orbit assignment, for both orbit counts, a track of an orbit
\* was added no earlier than any track of an orbit further out.
C17_OrbitsRecencyOrdered ==
    \A orbits \in Assignments :
        \A i, j \in DOMAIN orbits :
            i < j => \A a \in Range(orbits[i]), b \in Range(orbits[j]) :
                        a.added_at >= b.added_at

\* C17 witness: tracks added in three different seconds, two of them in the
\* same one, spread over three orbits or more of the visualization.
C17_Witness ==
    /\ Cardinality({t.added_at : t \in Range(page.tracks)}) >= 3
    /\ Cardinality({t.added_at : t \in Range(page.tracks)}) < Len(page.tracks)
    /\ Cardinality({o \in 1 .. numOrbits :
                        VisualizationTracksByOrbit(page)[o] # <<>>}) >= 3

\* How often a track is in the orbits.
Occurrences(orbits, t) ==
    LET At(o) == Cardinality({k \in DOMAIN orbits[o] : orbits[o][k] = t}) IN
    IF Len(orbits) = PageOrbits
    THEN At(1) + At(2) + At(3) + At(4) + At(5) + At(6)
    ELSE At(1) + At(2) + At(3) + At(4)

\* C18: the orbit assignment has as many orbits as asked for, every track of
\* the list is in one orbit, once, no other track is in any, and of an empty
\* list all orbits are empty.
C18_OrbitsPartition ==
    /\ Len(PageTracksByOrbit(page)) = PageOrbits
    /\ Len(VisualizationTracksByOrbit(page)) = numOrbits
    /\ \A orbits \in Assignments :
          /\ \A t \in Range(page.tracks) : Occurrences(orbits, t) = 1
          /\ \A o \in DOMAIN orbits : Range(orbits[o]) \subseteq Range(page.tracks)
          /\ page.tracks = <<>> => \A o \in DOMAIN orbits : orbits[o] = <<>>

\* C18 witness: more tracks than the visualization has orbits, after a track
\* was deleted.
C18_Witness ==
    /\ Len(page.tracks) > numOrbits
    /\ nextId - 1 > Len(page.tracks)

\* C19 (as claimed): of a track list that is not empty, the first orbit holds
\* the track added last and the last orbit the track added first.
C19_NewestInnerOldestOuter ==
    page.tracks # <<>> =>
        \A orbits \in Assignments :
            /\ \E a \in Range(orbits[1]) :
                  \A t \in Range(page.tracks) : a.added_at >= t.added_at
            /\ \E b \in Range(orbits[Len(orbits)]) :
                  \A t \in Range(page.tracks) : b.added_at <= t.added_at

\* C20 (as claimed): for an orbit selected by a click in the visualization,
\* the tracks the page lists are the tracks the visualization has on the orbit.
C20_PageAndVisualizationAgree ==
    page.selectedOrbit \in 1 .. numOrbits =>
        FilteredTracks(page) = VisualizationTracksByOrbit(page)[page.selectedOrbit]

\* The context a global chat request has built, and the emotions of the
\* collection it read, in the order it read them.
ContextBuilt == chat["c1"].context # NoContext

EmotionsRead == [k \in DOMAIN chat["c1"].context.tracks |->
                    chat["c1"].context.tracks[k].emotion]

PresentEmotions ==
    {e.emotion : e \in {x \in Range(chat["c1"].context.emotionCounts) : x.count > 0}}

\* C23 (as claimed): in the context of a global chat request, the emotions
\* with a count in the histogram and the absent emotions have nothing in
\* common and together are the eight labels.
C23_PresentAndAbsentPartition ==
    ContextBuilt =>
        /\ PresentEmotions \cap Range(chat["c1"].context.absentEmotions) = {}
        /\ PresentEmotions \cup Range(chat["c1"].context.absentEmotions) = Emotions

\* How many of the tracks read have the emotion, and where the first is.
TracksWith(e) == {k \in DOMAIN EmotionsRead : EmotionsRead[k] = e}

FirstWith(e) == CHOOSE k \in TracksWith(e) : \A l \in TracksWith(e) : k <= l

\* C24: the dominant emotion of the context has the highest count of the
\* collection read, and of the emotions with that count it is the one met
\* first; its percentage is the integer nearest to 100 * count / total; and of
\* the emotions joy, joy, sadness the dominant emotion is joy, the histogram
\* joy 2 and sadness 1, the percentage 67, the other six labels absent.
C24_DominantEmotion ==
    ContextBuilt =>
        LET ctx == chat["c1"].context
            d == ctx.dominantEmotion
            n == Len(EmotionsRead)
            c == Cardinality(TracksWith(d))
            off == 100 * c - ctx.dominantPercentage * n
        IN /\ TracksWith(d) # {}
           /\ \A e \in Range(EmotionsRead) :
                  \/ Cardinality(TracksWith(e)) < c
                  \/ Cardinality(TracksWith(e)) = c /\ FirstWith(d) <= FirstWith(e)
           /\ 2 * off <= n /\ -2 * off <= n
           /\ EmotionsRead = <<"joy", "joy", "sadness">> =>
                  /\ d = "joy"
                  /\ ctx.dominantPercentage = 67
                  /\ Range(ctx.emotionCounts) =
                         {[emotion |-> "joy", count |-> 2],
                          [emotion |-> "sadness", count |-> 1]}
                  /\ Range(ctx.absentEmotions) = Emotions \ {"joy", "sadness"}

\* C24 witness: a context was built of a collection read as joy, joy, sadness.
C24_Witness == ContextBuilt /\ EmotionsRead = <<"joy", "joy", "sadness">>

\* The sum of a sequence of numbers.
RECURSIVE SumOf(_)
SumOf(seq) == IF seq = <<>> THEN 0 ELSE Head(seq) + SumOf(Tail(seq))

\* The mean is the mean of the numbers that are not null, 0 if there is none.
IsMeanOf(avg, values) ==
    LET valid == SelectSeq(values, LAMBDA v : v # NullReal) IN
    IF valid = <<>> THEN avg.num = 0
    ELSE avg.num * Len(valid) = SumOf(valid) * avg.den

\* C25 (as claimed): a global chat request, with a key configured, builds a
\* context of whatever collection it reads, the empty one too, and in it the
\* mean valence and the mean energy are the means over the tracks whose field
\* is not null, 0 when there is none.
C25_MeansOverNonNull ==
    chat["c1"].kind = "global" /\ env.geminiApiKeys > 0 =>
        LET ctx == chat["c1"].context IN
        /\ ~(chat["c1"].pc = "done" /\ chat["c1"].provider = "none")
        /\ IsMeanOf(ctx.avgValence, [k \in DOMAIN ctx.tracks |-> ctx.tracks[k].valence])
        /\ IsMeanOf(ctx.avgEnergy, [k \in DOMAIN ctx.tracks |-> ctx.tracks[k].energy])

\* The orbits of an assignment one after the other.
RECURSIVE Concat(_)
Concat(orbits) == IF orbits = <<>> THEN <<>> ELSE Head(orbits) \o Concat(Tail(orbits))

\* The least p with p * n >= count.
PerOrbit(count, n) == CHOOSE p \in 0 .. count : p * n >= count /\ (p - 1) * n < count

\* min(floor(i / max(perOrbit, 1)), n - 1)
ClaimedOrbit(i, count, n) ==
    LET per == IF PerOrbit(count, n) > 1 THEN PerOrbit(count, n) ELSE 1
        q == i \div per
    IN IF q < n - 1 THEN q ELSE n - 1

\* The track of the list with j - 1 tracks added after it.
NthNewest(j) ==
    CHOOSE t \in Range(page.tracks) :
        Cardinality({u \in Range(page.tracks) : u.added_at > t.added_at}) = j - 1

\* C21: the orbits of an assignment, one after the other, are the tracks of
\* the list from the one added last to the one added first, and orbit o holds
\* the tracks at the positions i of that order with
\* min(floor(i / max(perOrbit, 1)), N - 1) = o, perOrbit = ceil(count / N);
\* of 8 tracks added at 8 different times the 4 orbits of the visualization are
\* {t1, t2}, {t3, t4}, {t5, t6}, {t7, t8}.
C21_OrbitOfPosition ==
    /\ \A orbits \in Assignments :
          LET flat == Concat(orbits)
              count == Len(page.tracks)
          IN /\ Len(flat) = count
             /\ Range(flat) = Range(page.tracks)
             /\ \A i, j \in DOMAIN flat : i < j => flat[i].added_at >= flat[j].added_at
             /\ \A o \in DOMAIN orbits :
                   Len(orbits[o]) =
                       Cardinality({i \in 0 .. count - 1 :
                                       ClaimedOrbit(i, count, Len(orbits)) = o - 1})
    /\ (/\ Len(page.tracks) = 8
        /\ Cardinality({t.added_at : t \in Range(page.tracks)}) = 8) =>
           VisualizationTracksByOrbit(page) =
               << <<NthNewest(1), NthNewest(2)>>, <<NthNewest(3), NthNewest(4)>>,
                  <<NthNewest(5), NthNewest(6)>>, <<NthNewest(7), NthNewest(8)>> >>

\* C21 witness: the page lists the second orbit of 8 tracks added at 8
\* different times.
C21_Witness ==
    /\ Len(page.tracks) = 8
    /\ Cardinality({t.added_at : t \in Range(page.tracks)}) = 8
    /\ page.selectedOrbit = 2

\* Where the track at position k of the list comes in the orbits: after the
\* tracks added later, and after those added in the same second that are
\* before it in the list.
RankInList(k) ==
    1 + Cardinality({j \in DOMAIN page.tracks :
                        \/ page.tracks[j].added_at > page.tracks[k].added_at
                        \/ /\ page.tracks[j].added_at = page.tracks[k].added_at
                           /\ j < k})

\* C22: the orbit assignment is a function of the track list: the orbits one
\* after the other are the list from newest to oldest with the tracks of one
\* added_at in the order the list has them (so that, with the orbit sizes of
\* C21, the same list has the same orbits, whenever they are computed).
C22_AssignmentDetermined ==
    \A orbits \in Assignments :
        /\ Len(Concat(orbits)) = Len(page.tracks)
        /\ \A k \in DOMAIN page.tracks : Concat(orbits)[RankInList(k)] = page.tracks[k]

\* C22 witness: the page lists an orbit of a list, longer than the page has
\* orbits, whose tracks were all added in the same second.
C22_Witness ==
    /\ Len(page.tracks) > PageOrbits
    /\ Cardinality({t.added_at : t \in Range(page.tracks)}) = 1
    /\ page.selectedOrbit # NoOrbit

\* C29: with every number of orbits up to the page's, of a list that is not
\* empty: no index is clamped, no orbit holds more than ceil(count / N) tracks,
\* and every orbit before one that is not empty holds exactly that many.
C29_OrbitsFilledInOrder ==
    page.tracks # <<>> =>
        \A n \in 1 .. PageOrbits :
            LET count == Len(page.tracks)
                orbits == TracksByOrbit(SortedTracks(page.tracks), n)
            IN /\ \A i \in 0 .. count - 1 :
                      /\ i \div PerOrbit(count, n) <= n - 1
                      /\ OrbitIndex(i, Ceil(count, n), n) = i \div PerOrbit(count, n)
               /\ \A o \in DOMAIN orbits : Len(orbits[o]) <= PerOrbit(count, n)
               /\ \A o, before \in DOMAIN orbits :
                      orbits[o] # <<>> /\ before < o =>
                          Len(orbits[before]) = PerOrbit(count, n)

\* C29 witness: the page lists an orbit of a list of 7 tracks, which fill three
\* orbits of the page, leave one track to the fourth and none to the others.
C29_Witness ==
    /\ Len(page.tracks) = 7
    /\ PageTracksByOrbit(page)[4] # <<>>
    /\ PageTracksByOrbit(page)[5] = <<>>
    /\ page.selectedOrbit # NoOrbit

\* C30: in the chat table every user row of the global chat is followed at
\* once by an assistant row, the reply to it, with the next id, and every
\* assistant row of the global chat follows such a user row; a request
\* answered with text has its two rows next to each other.
C30_TurnRowsConsecutive ==
    /\ \A k \in DOMAIN chat_messages :
          chat_messages[k].emotion = Null =>
              IF chat_messages[k].role = "user"
              THEN /\ k + 1 \in DOMAIN chat_messages
                   /\ chat_messages[k + 1].role = "assistant"
                   /\ chat_messages[k + 1].emotion = Null
                   /\ chat_messages[k + 1].id = chat_messages[k].id + 1
                   /\ chat_messages[k + 1].content = Reply(chat_messages[k].content.n)
              ELSE /\ k - 1 \in DOMAIN chat_messages
                   /\ chat_messages[k - 1].role = "user"
                   /\ chat_messages[k - 1].emotion = Null
    /\ \A c \in ChatRequests :
          chat[c].pc = "done" /\ chat[c].provider = "text" =>
              \E k \in DOMAIN chat_messages :
                  /\ k + 1 \in DOMAIN chat_messages
                  /\ chat_messages[k].role = "user"
                  /\ chat_messages[k].content = chat[c].message
                  /\ chat_messages[k + 1].role = "assistant"
                  /\ chat_messages[k + 1].content = chat[c].response.response
                  /\ chat_messages[k + 1].id = chat_messages[k].id + 1

\* C30 witness: two global chat requests that arrived before either was
\* answered have both been answered with text, four rows more in the table.
C30_Witness ==
    /\ \A c \in ChatRequests :
          /\ chat[c].kind = "global"
          /\ chat[c].pc = "done"
          /\ chat[c].provider = "text"
    /\ chat["c1"].before = chat["c2"].before
    /\ Len(chat_messages) = Len(chat["c1"].before) + 4

\* C26: in every state the nucleus_metadata table holds exactly one row, the
\* one with id = 1: a rename and the update of the dominant emotion change
\* that row where it is, and nothing deletes it or adds a second.
C26_ExactlyOneNucleus ==
    /\ Len(nucleus_metadata) = 1
    /\ nucleus_metadata[1].id = NucleusId
    /\ Len(NucleusGet(nucleus_metadata)) = 1

\* C26 witness: a rename has succeeded, and the one row carries the new name
\* and the dominant emotion of the collection.
C26_Witness ==
    /\ nucleus.pc = "done"
    /\ nucleus.response.status = 200
    /\ nucleus_metadata[1].name = "Velvet Dusk"
    /\ nucleus_metadata[1].dominant_emotion = nucleus.response.dominantEmotion
    /\ nucleus_metadata[1].dominant_emotion # Null

\* C27: the page has asked for the nucleus to be re-derived once for each
\* time the number of successful additions reached a multiple of 5 (single
\* tracks and playlists, deletions in between), and never otherwise.
C27_RenamedEveryFifthAddition == adder.renames = adder.added \div 5

\* The "}" that balances the "{" at the start of a text, depth braces being
\* open before position i; 0 when the text ends first.
RECURSIVE BalancedEnd(_, _, _)
BalancedEnd(text, i, depth) ==
    IF i \notin DOMAIN text THEN 0
    ELSE IF text[i] = "{" THEN BalancedEnd(text, i + 1, depth + 1)
    ELSE IF text[i] = "}"
    THEN IF depth = 1 THEN i ELSE BalancedEnd(text, i + 1, depth - 1)
    ELSE BalancedEnd(text, i + 1, depth)

\* The first balanced {...} block of a text, <<>> when it has none.
FirstBalancedBlock(text) ==
    LET first == FirstOf(text, "{")
        last == IF first = 0 THEN 0 ELSE BalancedEnd(text, first, 0)
    IN IF last = 0 THEN <<>> ELSE SubSeq(text, first, last)

\* Prose or fencing, then a valid JSON object, then any text at all.
ObjectInProse(text) ==
    /\ \A i \in 1 .. FirstOf(text, "{") - 1 : text[i] = "prose"
    /\ JsonParses(FirstBalancedBlock(text))

\* C28: a response that is prose or fencing, a valid JSON object, and then
\* any text (braces included) is parsed to that object, the first balanced
\* block of the text; the parse fails only when the text holds no such block.
C28_FirstBalancedBlockParsed ==
    parser.pc # "idle" =>
        /\ ObjectInProse(parser.responseText) =>
              /\ parser.pc = "returned"
              /\ parser.analysis = FirstBalancedBlock(parser.responseText)
        /\ parser.pc = "thrown" => ~ObjectInProse(parser.responseText)

====
